---- MODULE Spec2Model ----
(***************************************************************************)
(* Model of the sitespeed.io automation scripts:                           *)
(*   scripts/baristina-e2e-speed.js  (baristina and homerun runWorkflow)   *)
(*   scripts/compare-results.js      (pairwise and batch report tools)     *)
(*   compare-results.js              (the single-pair report tool)         *)
(***************************************************************************)
EXTENDS Integers, Sequences, FiniteSets, TLC

VARIABLES
    \* ---- runWorkflow (baristina-e2e-speed.js) ----
    script,         \* which runWorkflow runs: "baristina" | "homerun"
    argGiven,       \* process.argv.length >= 3
    pc,             \* position of runWorkflow
    trace,          \* the steps begun / finished so far, in order
    promise,        \* the promise of executeSitespeedCommand
    child,          \* the sitespeed.io subprocess
    closeCode,      \* the code its 'close' event carried
    errorSeen,      \* its 'error' event was handled
    srcDir,         \* the folder <release> in the working directory
    destDir,        \* the folder <site>/<release>
    beforeCleanup,  \* destDir as removeUnnecessaryFiles found it
    unlinkFails,    \* the files whose unlinkSync throws
    reportChild,    \* the compare-results.js subprocess (homerun)
    reportAtCleanup,\* reportChild when removeUnnecessaryFiles was called
    reportAtSuccess,\* reportChild when success was logged
    successLogged,  \* 'Workflow completed successfully!' was logged
    exitCode,       \* exit status of the workflow process
    \* ---- extractMetrics applied to one parsed document ----
    exImpl,         \* "scripts" (scripts/compare-results.js) | "root" (compare-results.js)
    exJson,         \* the parsed JSON value
    exOut,          \* what extractMetrics returned, or the error it threw
    exDone,         \* extractMetrics has been applied
    \* ---- the report tools (compare-results.js) ----
    tool,           \* "batch" | "pairwise" (scripts/compare-results.js) | "single" (compare-results.js)
    cArgs,          \* process.argv.length - 2
    cpc,            \* position of the tool's main
    releases,       \* batch: the discovered release names, sorted
    secIdx,         \* the section being processed
    relIdx,         \* batch: the release being loaded; pairwise: 1 = before, 2 = after
    metricsByRelease, \* batch: the section's metrics per release, in key order
    loaded,         \* pairwise: the documents loaded for the section
    allResults,     \* the sections pushed so far
    report,         \* the HTML report written to outputFile
    loadLog,        \* every loadJson call so far: section, release, outcome
    cError,         \* the uncaught error that ended the tool
    cExit,          \* exit status of the tool
    \* ---- compareReleases / compareMetrics applied to given metrics ----
    dKind,          \* "releases" (compareReleases) | "pair" (compareMetrics)
    dIn,            \* releases: metricsByRelease; pair: <<before, after>>
    dOut,           \* what the function returned
    dDone,          \* the function has been applied
    \* ---- batch discovery applied to one directory listing ----
    dsListing,      \* what readdirSync(baseDir) returned, in its order
    dsOut,          \* the release sequence
    dsDone,         \* the discovery has run
    \* ---- logNormalScore / calculatePerfScore applied to given values ----
    scKind,         \* "metric" (logNormalScore) | "perf" (calculatePerfScore)
    scIn,           \* metric: [metric, v1, v2] with v1 <= v2; perf: the metrics
    scOut,          \* metric: the scores of v1 and v2; perf: the aggregate
    scDone          \* the function has been applied

wfVars == <<script, argGiven, pc, trace, promise, child, closeCode, errorSeen,
            srcDir, destDir, beforeCleanup, unlinkFails, reportChild,
            reportAtCleanup, reportAtSuccess, successLogged, exitCode>>

exVars == <<exImpl, exJson, exOut, exDone>>

cmpVars == <<tool, cArgs, cpc, releases, secIdx, relIdx, metricsByRelease, loaded,
             allResults, report, loadLog, cError, cExit>>

dlVars == <<dKind, dIn, dOut, dDone>>

dsVars == <<dsListing, dsOut, dsDone>>

scVars == <<scKind, scIn, scOut, scDone>>

vars == <<wfVars, exVars, cmpVars, dlVars, dsVars, scVars>>

notWf == <<exVars, cmpVars, dlVars, dsVars, scVars>>
notEx == <<wfVars, cmpVars, dlVars, dsVars, scVars>>
notCmp == <<wfVars, exVars, dlVars, dsVars, scVars>>
notDl == <<wfVars, exVars, cmpVars, dsVars, scVars>>
notDs == <<wfVars, exVars, cmpVars, dlVars, scVars>>
notSc == <<wfVars, exVars, cmpVars, dlVars, dsVars>>

\* Exit codes are written as node prints them: "0", "1", "null" (killed by a signal).
Null == "null"
CloseCodes == {"0", "1", Null}

-----------------------------------------------------------------------------
(* Bounds of the model *)

MaxDepth == 2       \* depth of the directory chain below the cleaned folder
MaxFiles == 2       \* number of files sitespeed.io leaves in the folder
MaxReleases == 3    \* number of releases handed to compareReleases
GridSteps == 4      \* scored values per unit of the metric's median

-----------------------------------------------------------------------------
(* The file system: a folder is the set of its directories (paths relative *)
(* to the folder, <<>> the folder itself) and the set of its files.  A     *)
(* name is the sequence of its dot-separated pieces, so that endsWith is a *)
(* real suffix test.                                                       *)

NoDir == [dirs |-> {}, files |-> {}]

FileNames ==
    { <<"index", ".html">>,
      <<"browsertime", ".har", ".gz">>,
      <<"archive", ".gz">>,
      <<"browsertime", ".pageSummary", ".json">>,
      <<"browsertime", ".summary-total", ".json">>,
      <<"mybrowsertime", ".pageSummary", ".json">>,
      <<"pagexray", ".json">>,
      <<"data", ".json", ".bak">> }

DirChain == << <<"pages">>, <<"site", ".json">>, <<"data">>, <<"har", ".har", ".gz">> >>

DirPaths == { SubSeq(DirChain, 1, n) : n \in 0..MaxDepth }

FilePlaces == [dir : DirPaths, name : FileNames]

RECURSIVE SubsetsUpTo(_, _)
SubsetsUpTo(S, k) ==
    IF k = 0 THEN {{}}
    ELSE LET smaller == SubsetsUpTo(S, k - 1)
         IN smaller \cup { s \cup {x} : s \in smaller, x \in S }

Trees == { [dirs |-> DirPaths, files |-> fs] : fs \in SubsetsUpTo(FilePlaces, MaxFiles) }

OldTree == [dirs |-> {<< >>}, files |-> {[dir |-> << >>, name |-> <<"index", ".html">>]}]

existsSync(tree, dir) == dir \in tree.dirs

endsWith(name, suffix) ==
    /\ Len(suffix) <= Len(name)
    /\ SubSeq(name, Len(name) - Len(suffix) + 1, Len(name)) = suffix

\* Mutant: only browsertime.pageSummary.json is kept.
isKeptSummary_PageOnly(name) == name = <<"browsertime", ".pageSummary", ".json">>

isKeptSummary(name) ==
    \/ name = <<"browsertime", ".pageSummary", ".json">>
    \/ name = <<"browsertime", ".summary-total", ".json">>

\* The branch of removeUnnecessaryFiles that reaches unlinkSync.
reachesUnlink(name) ==
    IF endsWith(name, <<".har", ".gz">>) THEN TRUE
    ELSE IF endsWith(name, <<".json">>) THEN ~isKeptSummary(name)
    ELSE FALSE

subDirs(tree, dir) ==
    { d \in tree.dirs : Len(d) = Len(dir) + 1 /\ SubSeq(d, 1, Len(dir)) = dir }

\* unlinkSync of every file of dir that reaches it; a throwing unlink is caught.
unlinkIn(tree, dir, failing) ==
    [tree EXCEPT !.files =
        { f \in @ : ~(f.dir = dir /\ reachesUnlink(f.name) /\ f \notin failing) }]

\* Mutant: the directory branch does not recurse.
removeUnnecessaryFiles_NoRecursion(tree, dir, failing) ==
    IF ~existsSync(tree, dir) THEN tree ELSE unlinkIn(tree, dir, failing)

RECURSIVE removeUnnecessaryFiles(_, _, _)
RECURSIVE removeInEach(_, _, _)

removeInEach(tree, ds, failing) ==
    IF ds = {} THEN tree
    ELSE LET d == CHOOSE x \in ds : TRUE
         IN removeInEach(removeUnnecessaryFiles(tree, d, failing), ds \ {d}, failing)

removeUnnecessaryFiles(tree, dir, failing) ==
    IF ~existsSync(tree, dir) THEN tree
    ELSE removeInEach(unlinkIn(tree, dir, failing), subDirs(tree, dir), failing)

-----------------------------------------------------------------------------
(* JavaScript values.  JSON numbers are drawn from the integers.           *)

Undefined == [t |-> "undefined"]
JsNull == [t |-> "null"]
NaN == [t |-> "NaN"]
Arr == [t |-> "array"]
Num(n) == [t |-> "num", n |-> n]
Obj(f) == [t |-> "obj", f |-> f]
EmptyObj == Obj(<< >>)
TypeError == [t |-> "TypeError"]

isNullish(x) == x.t \in {"undefined", "null"}

\* ToBoolean
truthy(x) == ~(isNullish(x) \/ x = NaN \/ x = Num(0))

\* a || b
or(a, b) == IF truthy(a) THEN a ELSE b

\* x.k, for x neither null nor undefined
get(x, k) == IF x.t = "obj" /\ k \in DOMAIN x.f THEN x.f[k] ELSE Undefined

\* x?.k
optGet(x, k) == IF isNullish(x) THEN Undefined ELSE get(x, k)

MetricKeys == << "TTFB", "FCP", "LCP", "TBT", "CLS" >>
MetricSet == { MetricKeys[i] : i \in DOMAIN MetricKeys }

vitalsField ==
    [ TTFB |-> "ttfb", FCP |-> "firstContentfulPaint", LCP |-> "largestContentfulPaint",
      TBT |-> "totalBlockingTime", CLS |-> "cumulativeLayoutShift" ]

\* googleWebVitals.x?.median || googleWebVitals.x || null
medianOrField(g, k) == or(or(optGet(get(g, k), "median"), get(g, k)), JsNull)

\* extractMetrics of scripts/compare-results.js (both copies are the same):
\* json.statistics throws a TypeError when json is null.
extractMetrics(json) ==
    IF isNullish(json) THEN TypeError
    ELSE LET googleWebVitals ==
                 or(or(optGet(get(json, "statistics"), "googleWebVitals"),
                       get(json, "googleWebVitals")),
                    EmptyObj)
         IN [ m \in MetricSet |-> medianOrField(googleWebVitals, vitalsField[m]) ]

\* extractMetrics of compare-results.js: top-level googleWebVitals, .median only.
extractMetricsRoot(json) ==
    IF isNullish(json) THEN TypeError
    ELSE LET googleWebVitals == or(get(json, "googleWebVitals"), EmptyObj)
         IN [ m \in MetricSet |->
                or(optGet(get(googleWebVitals, vitalsField[m]), "median"), JsNull) ]

\* The metric fields a document may carry: absent (Undefined), a number, an
\* object with a .median, an object without one.
FieldValues ==
    { Undefined, Num(0), Num(250),
      Obj([median |-> Num(0)]), Obj([median |-> Num(250)]), Obj([mean |-> Num(250)]) }

vitalsObject(g) ==
    Obj([ k \in { vitalsField[m] : m \in { x \in MetricSet : g[x] # Undefined } } |->
            g[CHOOSE m \in MetricSet : vitalsField[m] = k] ])

VitalsObjects == { vitalsObject(g) : g \in [MetricSet -> FieldValues] }

JsonDocs ==
    { JsNull, Num(5), Arr, EmptyObj,
      Obj([statistics |-> JsNull]), Obj([statistics |-> EmptyObj]) }
    \cup { Obj([statistics |-> Obj([googleWebVitals |-> g])]) : g \in VitalsObjects }
    \cup { Obj([googleWebVitals |-> g]) : g \in VitalsObjects }

ExInit ==
    /\ exImpl \in {"scripts", "root"}
    /\ exJson \in JsonDocs
    /\ exOut = Undefined
    /\ exDone = FALSE

ExIdle ==
    /\ exImpl = "scripts"
    /\ exJson = JsNull
    /\ exOut = Undefined
    /\ exDone = FALSE

ExtractScripts ==
    /\ ~exDone
    /\ exImpl = "scripts"
    /\ exOut' = extractMetrics(exJson)
    /\ exDone' = TRUE
    /\ UNCHANGED <<exImpl, exJson>>
    /\ UNCHANGED notEx

ExtractRoot ==
    /\ ~exDone
    /\ exImpl = "root"
    /\ exOut' = extractMetricsRoot(exJson)
    /\ exDone' = TRUE
    /\ UNCHANGED <<exImpl, exJson>>
    /\ UNCHANGED notEx

-----------------------------------------------------------------------------
(* The report tools: helpers *)

\* A JavaScript object with string keys: its entries in insertion order.
hasKey(o, key) == \E i \in DOMAIN o : o[i].k = key
at(o, key) == o[CHOOSE i \in DOMAIN o : o[i].k = key].v
assign(o, key, val) ==
    IF hasKey(o, key)
      THEN [ i \in DOMAIN o |-> IF o[i].k = key THEN [k |-> key, v |-> val] ELSE o[i] ]
      ELSE Append(o, [k |-> key, v |-> val])

\* What reading and parsing a file yields: an error, or the parsed value.
ENOENT == [t |-> "ENOENT"]
SyntaxError == [t |-> "SyntaxError"]

DocA ==
    Obj([googleWebVitals |->
        Obj([ ttfb |-> Obj([median |-> Num(800)]),
              firstContentfulPaint |-> Num(1800),
              largestContentfulPaint |-> Num(2400),
              totalBlockingTime |-> Num(300),
              cumulativeLayoutShift |-> Num(1) ])])

DocB ==
    Obj([statistics |-> Obj([googleWebVitals |->
        Obj([ ttfb |-> Num(0),
              largestContentfulPaint |-> Obj([median |-> Num(2600)]),
              totalBlockingTime |-> Obj([median |-> Num(0)]),
              cumulativeLayoutShift |-> Obj([median |-> Num(3)]) ])])])

DocC ==
    Obj([googleWebVitals |->
        Obj([ firstContentfulPaint |-> Obj([median |-> Num(1500)]),
              largestContentfulPaint |-> Num(2500),
              cumulativeLayoutShift |-> Obj([median |-> Num(0)]) ])])

FileContents == { ENOENT, SyntaxError, JsNull, DocA, DocB, DocC }

readFails(content) == content.t \in {"ENOENT", "SyntaxError"}

metricUnits == [ TTFB |-> "ms", FCP |-> "ms", LCP |-> "ms", TBT |-> "ms", CLS |-> "" ]

\* a - b: ToNumber of an object is NaN
jsMinus(a, b) == IF a.t = "num" /\ b.t = "num" THEN Num(a.n - b.n) ELSE NaN

\* (diff / b) * 100, kept as the exact ratio diff * 100 / b
Ratio(n, d) == [t |-> "ratio", num |-> n, den |-> d]
jsPercent(diff, b) ==
    IF diff.t = "num" /\ b.t = "num" THEN Ratio(diff.n * 100, b.n) ELSE NaN

\* Round to the nearest integer, halves away from zero (n / d, d > 0 or d < 0).
RoundDiv(n, d) ==
    LET an == IF n < 0 THEN -n ELSE n
        ad == IF d < 0 THEN -d ELSE d
        q == (2 * an + ad) \div (2 * ad)
    IN IF (n < 0) = (d < 0) THEN q ELSE -q

Dash == [t |-> "-"]
NotApplicable == [t |-> "N/A"]

\* formatValue: '-' for null, `${Math.round(value)} ms`, value.toFixed(3);
\* value.toFixed is not a function when value is an object.
formatValue(value, unit) ==
    IF isNullish(value) THEN Dash
    ELSE IF unit = "ms"
      THEN (IF value.t = "num" THEN [t |-> "ms", n |-> value.n] ELSE [t |-> "NaN ms"])
    ELSE IF value.t = "num" THEN [t |-> "fixed3", n |-> value.n]
    ELSE IF value.t = "NaN" THEN [t |-> "NaN"]
    ELSE TypeError

\* formatPct: 'N/A' for null and NaN, else sign and pct.toFixed(2)
formatPct(pct) ==
    IF isNullish(pct) \/ pct.t = "NaN" THEN NotApplicable
    ELSE [t |-> "%", hundredths |-> RoundDiv(pct.num * 100, pct.den)]

\* Mutant: the arrows are swapped.
arrowOf_Swapped(diff) ==
    IF diff.t = "num" /\ diff.n < 0 THEN "up"
    ELSE IF diff.t = "num" /\ diff.n > 0 THEN "down"
    ELSE "right"

\* diff < 0 ? down : diff > 0 ? up : right (comparisons with null, NaN, undefined are false)
arrowOf(diff) ==
    IF diff.t = "num" /\ diff.n < 0 THEN "down"
    ELSE IF diff.t = "num" /\ diff.n > 0 THEN "up"
    ELSE "right"

\* The elements of a sequence that satisfy a predicate, in order.
find(records, metric) ==
    IF \E i \in DOMAIN records : records[i].metric = metric
      THEN records[CHOOSE i \in DOMAIN records :
                     /\ records[i].metric = metric
                     /\ \A j \in 1..(i - 1) : records[j].metric # metric]
      ELSE Undefined

-----------------------------------------------------------------------------
(* Batch discovery: readdirSync(baseDir), filter, sort.  A name is the      *)
(* sequence of its pieces, '-' and every digit a piece of its own.         *)

dirent(name, isDir) == [name |-> name, isDirectory |-> isDir]

BaseDirEntries ==
    { dirent(<<"release", "-", "9">>, TRUE),
      dirent(<<"release", "-", "1", "0">>, TRUE),
      dirent(<<"release", "-", "3", "0">>, TRUE),
      dirent(<<"release", "-", "1", "1">>, FALSE),
      dirent(<<"assets">>, TRUE) }

\* The orders in which readdirSync may list a set of entries.
Listings(S) ==
    { f \in [1..Cardinality(S) -> S] : \A i, j \in 1..Cardinality(S) : f[i] = f[j] => i = j }

startsWith(name, prefix) ==
    /\ Len(prefix) <= Len(name)
    /\ SubSeq(name, 1, Len(prefix)) = prefix

SetMin(S) == CHOOSE x \in S : \A y \in S : x <= y

\* name.split('-')[1], for a name that holds a '-'
secondPiece(name) ==
    LET first == SetMin({ i \in DOMAIN name : name[i] = "-" })
        rest == SubSeq(name, first + 1, Len(name))
        dashes == { i \in DOMAIN rest : rest[i] = "-" }
    IN IF dashes = {} THEN rest ELSE SubSeq(rest, 1, SetMin(dashes) - 1)

Digits == {"0", "1", "2", "3", "4", "5", "6", "7", "8", "9"}

digitValue(c) ==
    CASE c = "0" -> 0 [] c = "1" -> 1 [] c = "2" -> 2 [] c = "3" -> 3 [] c = "4" -> 4
      [] c = "5" -> 5 [] c = "6" -> 6 [] c = "7" -> 7 [] c = "8" -> 8 [] c = "9" -> 9

RECURSIVE leadingDigits(_, _)
leadingDigits(s, acc) ==
    IF s = << >> \/ Head(s) \notin Digits THEN acc
    ELSE leadingDigits(Tail(s), acc * 10 + digitValue(Head(s)))

\* parseInt: the value of the leading digits, NaN when there is none
parseInt(s) ==
    IF s = << >> \/ Head(s) \notin Digits THEN NaN ELSE Num(leadingDigits(s, 0))

\* (a, b) => parseInt(a.split('-')[1]) - parseInt(b.split('-')[1])
releaseOrder(a, b) == jsMinus(parseInt(secondPiece(a)), parseInt(secondPiece(b)))

\* Array.prototype.sort is stable; a comparator result of NaN counts as 0.
insertSorted(sorted, x) ==
    LET after == { i \in 1..Len(sorted) :
                     \A j \in i..Len(sorted) :
                        LET c == releaseOrder(sorted[j], x) IN c.t = "num" /\ c.n > 0 }
        pos == IF after = {} THEN Len(sorted) + 1 ELSE SetMin(after)
    IN SubSeq(sorted, 1, pos - 1) \o <<x>> \o SubSeq(sorted, pos, Len(sorted))

RECURSIVE sortReleases(_)
sortReleases(names) ==
    IF names = << >> THEN << >>
    ELSE insertSorted(sortReleases(SubSeq(names, 1, Len(names) - 1)), names[Len(names)])

\* readdirSync(baseDir).filter(startsWith('release-') && isDirectory).sort(...)
discoverReleases(listing) ==
    LET kept == SelectSeq(listing,
                    LAMBDA e : startsWith(e.name, <<"release", "-">>) /\ e.isDirectory)
    IN sortReleases([ i \in DOMAIN kept |-> kept[i].name ])

\* A comparator is consistent on a set of names when it never returns NaN.
consistentOn(names) ==
    \A i, j \in DOMAIN names : releaseOrder(names[i], names[j]).t = "num"

\* What sort may return: the stable order for a consistent comparator, an
\* implementation-defined order of the same names otherwise.
sortOutcomes(names) ==
    IF consistentOn(names) THEN { sortReleases(names) }
    ELSE { [ i \in DOMAIN names |-> names[f[i]] ] : f \in Listings(DOMAIN names) }

\* A base directory that also holds directories whose suffix is no integer.
DiscoverEntries ==
    { dirent(<<"release", "-", "9">>, TRUE),
      dirent(<<"release", "-", "1", "0">>, TRUE),
      dirent(<<"release", "-", "1", "1">>, FALSE),
      dirent(<<"assets">>, TRUE),
      dirent(<<"release", "-", "notes">>, TRUE),
      dirent(<<"release", "-", "1", "0", "-", "rc">>, TRUE) }

DsInit ==
    /\ \E S \in SUBSET DiscoverEntries : dsListing \in Listings(S)
    /\ dsOut = << >>
    /\ dsDone = FALSE

DsIdle ==
    /\ dsListing = << >>
    /\ dsOut = << >>
    /\ dsDone = FALSE

\* const releases = fs.readdirSync(baseDir).filter(...).sort(...)
Discover ==
    /\ ~dsDone
    /\ LET kept == SelectSeq(dsListing,
                       LAMBDA e : startsWith(e.name, <<"release", "-">>) /\ e.isDirectory)
       IN dsOut' \in sortOutcomes([ i \in DOMAIN kept |-> kept[i].name ])
    /\ dsDone' = TRUE
    /\ UNCHANGED dsListing
    /\ UNCHANGED notDs

-----------------------------------------------------------------------------
(* Arithmetic of the score.  A double x of the script is the fixed-point   *)
(* number x * Scale, six decimals kept; products are split so that every   *)
(* intermediate value stays below 2^31.                                    *)

Scale == 1000000
Half == 1000                \* Half * Half = Scale
LN2 == 693147               \* Math.log(2)
SQRT1_2 == 707107           \* 1 / Math.sqrt(2)

Abs(x) == IF x < 0 THEN -x ELSE x
Sign(x) == IF x < 0 THEN -1 ELSE 1

\* x * y for x, y >= 0, the product split so that it stays in range
fmulAbs(x, y) ==
    (x \div Half) * (y \div Half)
    + ((x \div Half) * (y % Half) + (x % Half) * (y \div Half)) \div Half
    + ((x % Half) * (y % Half)) \div Scale

\* a * b
fmul(a, b) == Sign(a) * Sign(b) * fmulAbs(Abs(a), Abs(b))

\* The first k decimals of r / d, for 0 <= r < d
RECURSIVE decimals(_, _, _, _)
decimals(r, d, k, acc) ==
    IF k = 0 THEN acc
    ELSE decimals((r * 10) % d, d, k - 1, acc * 10 + (r * 10) \div d)

\* a / b, for two integers or two fixed-point numbers
fdivAbs(x, y) == (x \div y) * Scale + decimals(x % y, y, 6, 0)
fdiv(a, b) == Sign(a) * Sign(b) * fdivAbs(Abs(a), Abs(b))

\* The k with 2^k <= n < 2^(k+1), for an integer n >= 1
RECURSIVE log2floor(_)
log2floor(n) == IF n < 2 THEN 0 ELSE 1 + log2floor(n \div 2)

RECURSIVE pow2(_)
pow2(k) == IF k = 0 THEN 1 ELSE 2 * pow2(k - 1)

\* sum of z^(2i+1) / (2i+1) for the odd powers from z^n on, zn = z^n
RECURSIVE atanhSeries(_, _, _)
atanhSeries(zn, zz, n) ==
    IF zn = 0 \/ n > 15 THEN 0
    ELSE zn \div n + atanhSeries(fmul(zn, zz), zz, n + 2)

\* Math.log(n), for an integer n >= 1: n = 2^k * y, 1 <= y < 2,
\* log(y) = 2 * atanh((y - 1) / (y + 1))
atanh(z) == atanhSeries(z, fmul(z, z), 1)
logMantissa(y) == 2 * atanh(fdiv(y - Scale, y + Scale))
logShifted(n, k) == k * LN2 + logMantissa(fdiv(n, pow2(k)))
logInt(n) == logShifted(n, log2floor(n))

\* Math.log(n / d)
log(n, d) == logInt(n) - logInt(d)

\* sum of (-r)^i / i! from the term t = (-r)^i / i! on
RECURSIVE expSeries(_, _, _)
expSeries(t, r, i) ==
    IF t = 0 \/ i > 14 THEN 0
    ELSE t + expSeries(-(fmul(t, r) \div (i + 1)), r, i + 1)

\* Math.exp(-u), for u >= 0: u = k * log(2) + r, exp(-u) = exp(-r) / 2^k
expNeg(u) ==
    IF u \div LN2 > 20 THEN 0 ELSE expSeries(Scale, u % LN2, 0) \div pow2(u \div LN2)

a1 == 254830                \* 0.254829592
a2 == -284497               \* -0.284496736
a3 == 1421414               \* 1.421413741
a4 == -1453152              \* -1.453152027
a5 == 1061405               \* 1.061405429
erfP == 327591              \* p = 0.3275911

\* erf: Abramowitz-Stegun approximation
erfPoly(t) == fmul(fmul(fmul(fmul(fmul(a5, t) + a4, t) + a3, t) + a2, t) + a1, t)
erfAbs(x) == Scale - fmul(erfPoly(fdiv(Scale, Scale + fmul(erfP, x))), expNeg(fmul(x, x)))
erf(x0) == Sign(x0) * erfAbs(Abs(x0))

\* Math.round of a fixed-point number
round(x) == (x + Scale \div 2) \div Scale

\* A JSON number that is no integer: n / d
Frac(n, d) == [t |-> "num", n |-> n, d |-> d]
numer(v) == v.n
denom(v) == IF "d" \in DOMAIN v THEN v.d ELSE 1

\* logNormalScore(value, median, podr): median and podr are <<n, d>> for n / d
\* 100 * (1 - phi) for the value whose logarithm is logValue
scoreAt(logValue, mu, sigma) ==
    round((Scale - (Scale + erf(fmul(fdiv(logValue - mu, sigma), SQRT1_2))) \div 2) * 100)

\* mu = location = log(median), sigma = shape = log(2) / logRatio
scoreFrom(logValue, location, logPodr) ==
    scoreAt(logValue, location, fdiv(LN2, logPodr - location))

logNormalScoreOf(n, d, median, podr) ==
    scoreFrom(log(n, d), log(median[1], median[2]), log(podr[1], podr[2]))

\* Mutant: the score is not inverted (phi instead of 1 - phi).
logNormalScore_NotInverted(value, median, podr) ==
    IF isNullish(value) THEN JsNull
    ELSE IF value.t # "num" \/ numer(value) < 0 THEN NaN
    ELSE IF numer(value) = 0 THEN Num(0)
    ELSE Num(100 - logNormalScoreOf(numer(value), denom(value), median, podr))

\* logNormalScore: null for null; Math.log of an object or of a negative
\* number is NaN, Math.log(0) is -Infinity (erf -1, phi 0, score 100).
logNormalScore(value, median, podr) ==
    IF isNullish(value) THEN JsNull
    ELSE IF value.t # "num" \/ numer(value) < 0 THEN NaN
    ELSE IF numer(value) = 0 THEN Num(100)
    ELSE Num(logNormalScoreOf(numer(value), denom(value), median, podr))

\* calculatePerfScore: the (median, podr) each metric is scored against
scoreRefs ==
    [ FCP |-> [median |-> <<1800, 1>>, podr |-> <<3000, 1>>],
      LCP |-> [median |-> <<2500, 1>>, podr |-> <<4000, 1>>],
      TBT |-> [median |-> <<300, 1>>, podr |-> <<600, 1>>],
      CLS |-> [median |-> <<1, 10>>, podr |-> <<1, 4>>],
      TTFB |-> [median |-> <<800, 1>>, podr |-> <<1800, 1>>] ]

\* Lighthouse weighting, in hundredths
weights == [ FCP |-> 10, LCP |-> 25, TBT |-> 30, CLS |-> 15, TTFB |-> 20 ]

RECURSIVE sumOver(_, _)
sumOver(S, f) ==
    IF S = {} THEN 0
    ELSE LET m == CHOOSE x \in S : TRUE IN f[m] + sumOver(S \ {m}, f)

\* Math.round(total / weightSum) for the doubles total = t / 100 and
\* weightSum = w / 100.  When the exact quotient is a half, the rounding errors
\* of the double sum and division decide on which side of the half the result
\* falls: halfDown says it falls below.
roundQuotient(t, w, halfDown) ==
    LET q == (2 * t + w) \div (2 * w)
    IN IF (2 * t + w) % (2 * w) = 0 /\ halfDown THEN q - 1 ELSE q

\* The score of each metric against its reference
scoreMetrics(metrics) ==
    [ FCP |-> logNormalScore(metrics.FCP, scoreRefs.FCP.median, scoreRefs.FCP.podr),
      LCP |-> logNormalScore(metrics.LCP, scoreRefs.LCP.median, scoreRefs.LCP.podr),
      TBT |-> logNormalScore(metrics.TBT, scoreRefs.TBT.median, scoreRefs.TBT.podr),
      CLS |-> logNormalScore(metrics.CLS, scoreRefs.CLS.median, scoreRefs.CLS.podr),
      TTFB |-> logNormalScore(metrics.TTFB, scoreRefs.TTFB.median, scoreRefs.TTFB.podr) ]

\* total += score * weight and weightSum += weight over the metrics counted
weightedScore(scores, counted, halfDown) ==
    IF \E m \in counted : scores[m] = NaN THEN NaN
    ELSE IF counted = {} THEN NaN
    ELSE Num(roundQuotient(
               sumOver(counted, [ m \in MetricSet |-> IF isNullish(scores[m]) THEN 0 ELSE scores[m].n * weights[m] ]),
               sumOver(counted, weights), halfDown))

presentScores(scores) == { m \in MetricSet : ~isNullish(scores[m]) }
scoredOver(scores, halfDown) == weightedScore(scores, presentScores(scores), halfDown)

\* Mutant: a null metric counts with score 0.
calculatePerfScore_NullScoresZero(metrics, halfDown) ==
    IF metrics = Undefined \/ metrics = JsNull THEN TypeError
    ELSE weightedScore(scoreMetrics(metrics), MetricSet, halfDown)

\* calculatePerfScore: Math.round(total / weightSum) over the scores that are
\* not null; NaN when a score is NaN or no metric is scored (0 / 0).
calculatePerfScore(metrics, halfDown) ==
    IF metrics = Undefined \/ metrics = JsNull THEN TypeError
    ELSE scoredOver(scoreMetrics(metrics), halfDown)

-----------------------------------------------------------------------------
(* logNormalScore and calculatePerfScore applied to given values *)

medianOf(m) == Frac(scoreRefs[m].median[1], scoreRefs[m].median[2])
podrOf(m) == Frac(scoreRefs[m].podr[1], scoreRefs[m].podr[2])

\* v * n / d
scaled(v, n, d) == Frac(numer(v) * n, denom(v) * d)

\* v1 <= v2
lessEq(v1, v2) == numer(v1) * denom(v2) <= numer(v2) * denom(v1)

\* The values a metric is scored at: the multiples of median / GridSteps up
\* to four medians, the point of diminishing returns, and two far values.
ScoreGrid(m) ==
    { scaled(medianOf(m), k, GridSteps) : k \in 1..(4 * GridSteps) }
    \cup { podrOf(m), scaled(medianOf(m), 1, 100), scaled(medianOf(m), 100, 1) }

\* The values of a metric handed to calculatePerfScore.
PerfValues(m) ==
    { JsNull, medianOf(m), podrOf(m), scaled(medianOf(m), 1, 2), Obj([mean |-> Num(250)]) }

ScInit ==
    /\ scKind \in {"metric", "perf"}
    /\ IF scKind = "metric"
         THEN \E m \in MetricSet : \E v1, v2 \in ScoreGrid(m) :
                 /\ lessEq(v1, v2)
                 /\ scIn = [metric |-> m, v1 |-> v1, v2 |-> v2]
         ELSE \E ttfb \in PerfValues("TTFB"), fcp \in PerfValues("FCP"),
                 lcp \in PerfValues("LCP"), tbt \in PerfValues("TBT"),
                 cls \in PerfValues("CLS") :
                 scIn = [TTFB |-> ttfb, FCP |-> fcp, LCP |-> lcp, TBT |-> tbt, CLS |-> cls]
    /\ scOut = Undefined
    /\ scDone = FALSE

ScIdle ==
    /\ scKind = "metric"
    /\ scIn = << >>
    /\ scOut = Undefined
    /\ scDone = FALSE

ScoreMetric ==
    /\ scKind = "metric"
    /\ ~scDone
    /\ LET refs == scoreRefs[scIn.metric]
       IN scOut' = << logNormalScore(scIn.v1, refs.median, refs.podr),
                      logNormalScore(scIn.v2, refs.median, refs.podr) >>
    /\ scDone' = TRUE
    /\ UNCHANGED <<scKind, scIn>>
    /\ UNCHANGED notSc

CalculatePerfScore ==
    /\ scKind = "perf"
    /\ ~scDone
    /\ \E halfDown \in BOOLEAN : scOut' = calculatePerfScore(scIn, halfDown)
    /\ scDone' = TRUE
    /\ UNCHANGED <<scKind, scIn>>
    /\ UNCHANGED notSc

-----------------------------------------------------------------------------
(* scripts/compare-results.js, batch mode *)

\* Mutant: the catch block logs and returns nothing.
loadJsonBatch_ReturnsUndefined(content) == IF readFails(content) THEN Undefined ELSE content

\* loadJson (batch): catch (e) { ...; return {}; }
loadJsonBatch(content) == IF readFails(content) THEN EmptyObj ELSE content

\* Mutant: every release is compared with the first one.
prevIndex_First(idx) == 1

\* The index of the release compareReleases takes as the previous one.
prevIndex(idx) == idx - 1

\* Mutant: a missing previous value counts as 0.
compareRecord_MissingIsZero(metric, value, prevMetrics) ==
    LET prev == IF prevMetrics = JsNull \/ isNullish(prevMetrics[metric])
                  THEN Num(0) ELSE prevMetrics[metric]
        diff == jsMinus(value, prev)
    IN [metric |-> metric, value |-> value, unit |-> metricUnits[metric],
        diff |-> diff, pct |-> IF prev = Num(0) THEN JsNull ELSE jsPercent(diff, prev)]

\* Mutant: the percentage is computed without the guard against 0.
compareRecord_NoZeroGuard(metric, value, prevMetrics) ==
    LET hasPrev == prevMetrics # JsNull /\ ~isNullish(prevMetrics[metric])
        diff == IF hasPrev THEN jsMinus(value, prevMetrics[metric]) ELSE JsNull
    IN [metric |-> metric, value |-> value, unit |-> metricUnits[metric],
        diff |-> diff,
        pct |-> IF hasPrev THEN jsPercent(diff, prevMetrics[metric]) ELSE JsNull]

compareRecord(metric, value, prevMetrics) ==
    LET hasPrev == prevMetrics # JsNull /\ ~isNullish(prevMetrics[metric])
        diff == IF hasPrev THEN jsMinus(value, prevMetrics[metric]) ELSE JsNull
        pct == IF hasPrev
                 THEN (IF prevMetrics[metric] = Num(0) THEN JsNull
                       ELSE jsPercent(diff, prevMetrics[metric]))
                 ELSE JsNull
    IN [metric |-> metric, value |-> value, unit |-> metricUnits[metric],
        diff |-> diff, pct |-> pct]

\* A key that is a canonical array index: decimal digits without a leading zero.
isArrayIndex(key) ==
    /\ key # << >>
    /\ \A i \in DOMAIN key : key[i] \in Digits
    /\ (Len(key) = 1 \/ key[1] # "0")

\* The array-index keys in ascending numeric order.
RECURSIVE sortIndexKeys(_)
sortIndexKeys(ks) ==
    IF ks = << >> THEN << >>
    ELSE LET rest == sortIndexKeys(Tail(ks))
             x == leadingDigits(Head(ks), 0)
         IN SelectSeq(rest, LAMBDA k : leadingDigits(k, 0) < x) \o << Head(ks) >>
            \o SelectSeq(rest, LAMBDA k : leadingDigits(k, 0) > x)

\* The own keys in insertion order.
insertionOrder(o) == [ i \in DOMAIN o |-> o[i].k ]

\* Mutant: the keys in reverse insertion order.
keys_Reversed(o) == [ i \in DOMAIN o |-> o[Len(o) + 1 - i].k ]

\* Object.keys: the array-index keys in ascending numeric order, then the
\* other string keys in insertion order.
keys(o) ==
    sortIndexKeys(SelectSeq(insertionOrder(o), isArrayIndex))
    \o SelectSeq(insertionOrder(o), LAMBDA k : ~isArrayIndex(k))

\* releases.forEach((release, idx) => ...): results[release] for each key
compareReleasesIn(mbr, rels) ==
    [ idx \in DOMAIN rels |->
        LET metrics == at(mbr, rels[idx])
            prevMetrics == IF idx > 1 THEN at(mbr, rels[prevIndex(idx)]) ELSE JsNull
            all == [ i \in DOMAIN MetricKeys |->
                       compareRecord(MetricKeys[i], metrics[MetricKeys[i]], prevMetrics) ]
        IN [k |-> rels[idx], v |-> SelectSeq(all, LAMBDA r : ~isNullish(r.value))] ]

\* compareReleases: results[release], for the releases in Object.keys order.
compareReleases(mbr) == compareReleasesIn(mbr, keys(mbr))

\* One table row of generateHtml (batch): a cell per release, then the
\* latest release's delta, delta% and arrow.
batchRow(metric, rels, results) ==
    LET cells == [ i \in DOMAIN rels |->
                     LET data == find(at(results, rels[i]), metric)
                     IN IF data = Undefined THEN Dash ELSE formatValue(data.value, data.unit) ]
        last == find(at(results, rels[Len(rels)]), metric)
    IN [ metric |-> metric,
         cells |-> cells,
         delta |-> IF last # Undefined /\ ~isNullish(last.diff)
                     THEN formatValue(last.diff, last.unit) ELSE Dash,
         pct |-> IF last # Undefined /\ ~isNullish(last.pct)
                   THEN formatPct(last.pct) ELSE NotApplicable,
         arrow |-> IF last = Undefined THEN "right" ELSE arrowOf(last.diff) ]

rowThrows(row) ==
    \/ row.delta = TypeError
    \/ \E i \in DOMAIN row.cells : row.cells[i] = TypeError

\* The dash shown instead of a score difference
Placeholder == [t |-> "placeholder"]

\* `${scoreDiff > 0 ? '+' : ''}${scoreDiff} ${scoreArrow}`
scoreDiffShown(scoreDiff) == [t |-> "diff", value |-> scoreDiff, arrow |-> arrowOf(scoreDiff)]

\* if (prevScore != null) { scoreDiff = score - prevScore; ... } and
\* `${scoreDiff != null ? ... : placeholder}`
scoreBadge(score, prevScore) ==
    [ score |-> score,
      scoreDiff |-> IF isNullish(prevScore) THEN Placeholder
                    ELSE scoreDiffShown(jsMinus(score, prevScore)) ]

\* The score badge and the score difference of generateHtml (batch):
\* score = calculatePerfScore(lastMetrics) || 0 and
\* prevScore = prevMetrics ? calculatePerfScore(prevMetrics) : null.
batchScore(entry, rels, halfDown) ==
    scoreBadge(or(calculatePerfScore(at(entry.metricsByRelease, rels[Len(rels)]), halfDown), Num(0)),
               IF Len(rels) > 1
                 THEN calculatePerfScore(at(entry.metricsByRelease, rels[Len(rels) - 1]), halfDown)
                 ELSE JsNull)

batchSection(entry, rels, halfDown) ==
    [ section |-> entry.section,
      badge |-> batchScore(entry, rels, halfDown),
      rows |-> [ i \in DOMAIN MetricKeys |-> batchRow(MetricKeys[i], rels, entry.results) ] ]

\* generateHtml (batch): the document written, or the TypeError thrown while
\* building it (calculatePerfScore(undefined) when there is no release,
\* value.toFixed on a value that is no number).
generateHtmlBatch(all, rels, halfDown) ==
    IF Len(rels) = 0 /\ Len(all) > 0 THEN TypeError
    ELSE IF \E i \in DOMAIN all : \E j \in DOMAIN MetricKeys :
                rowThrows(batchRow(MetricKeys[j], rels, all[i].results))
      THEN TypeError
      ELSE [t |-> "html", releases |-> rels,
            sections |-> [ i \in DOMAIN all |-> batchSection(all[i], rels, halfDown) ]]

-----------------------------------------------------------------------------
(* scripts/compare-results.js (pairwise) and compare-results.js *)

ProcessExit == [t |-> "process.exit(1)"]

\* Mutant: the catch block returns {} as the batch loader does.
loadJson_ReturnsEmpty(content) == IF readFails(content) THEN EmptyObj ELSE content

\* loadJson (pairwise): catch (e) { ...; process.exit(1); }
loadJson(content) == IF readFails(content) THEN ProcessExit ELSE content

\* compareMetrics: a record per metric that is non-null before and after
compareMetrics(before, after) ==
    LET all == [ i \in DOMAIN MetricKeys |->
                   LET metric == MetricKeys[i]
                       b == before[metric]
                       a == after[metric]
                       diff == jsMinus(a, b)
                   IN [metric |-> metric, before |-> b, after |-> a, diff |-> diff,
                       pct |-> IF b = Num(0) THEN JsNull ELSE jsPercent(diff, b),
                       unit |-> metricUnits[metric]] ]
    IN SelectSeq(all, LAMBDA r : ~(isNullish(r.before) \/ isNullish(r.after)))

pairRow(r) ==
    [ metric |-> r.metric,
      before |-> formatValue(r.before, r.unit),
      after |-> formatValue(r.after, r.unit),
      delta |-> formatValue(r.diff, r.unit),
      pct |-> formatPct(r.pct),
      arrow |-> arrowOf(r.diff) ]

\* generateHtml (pairwise; printConsole formats the same values first in
\* compare-results.js): the document written, or the TypeError of value.toFixed.
generateHtmlPair(all) ==
    LET secs == [ i \in DOMAIN all |->
                    [ section |-> all[i].section,
                      rows |-> [ j \in DOMAIN all[i].results |-> pairRow(all[i].results[j]) ] ] ]
    IN IF \E i \in DOMAIN secs : \E j \in DOMAIN secs[i].rows :
             TypeError \in { secs[i].rows[j].before, secs[i].rows[j].after, secs[i].rows[j].delta }
         THEN TypeError
         ELSE [t |-> "html", sections |-> secs]

-----------------------------------------------------------------------------
(* compareReleases and compareMetrics applied to given metrics *)

\* The values a metric may have when it is compared: absent, zero, numbers,
\* and the object extractMetrics lets through for a field without a median.
SampleValues == { JsNull, Num(0), Num(2400), Num(2600), Obj([mean |-> Num(250)]) }

\* The metric sets handed to the comparison: LCP and TBT vary.
MetricSamples ==
    { [TTFB |-> JsNull, FCP |-> Num(1800), LCP |-> x, TBT |-> y, CLS |-> Num(0)] :
        x \in SampleValues, y \in SampleValues }

ReleaseDigits == << "1", "2", "3", "4", "5", "6", "7", "8", "9" >>
releaseName(i) == << "release", "-", ReleaseDigits[i] >>

\* metricsByRelease for n releases, keys in sorted order
MetricsByRelease(n) ==
    { [ i \in 1..n |-> [k |-> releaseName(i), v |-> f[i]] ] : f \in [1..n -> MetricSamples] }

DlInit ==
    /\ dKind \in {"releases", "pair"}
    /\ IF dKind = "releases"
         THEN \E n \in 1..MaxReleases : dIn \in MetricsByRelease(n)
         ELSE dIn \in MetricSamples \X MetricSamples
    /\ dOut = << >>
    /\ dDone = FALSE

DlIdle ==
    /\ dKind = "pair"
    /\ dIn = << >>
    /\ dOut = << >>
    /\ dDone = FALSE

CompareReleases ==
    /\ dKind = "releases"
    /\ ~dDone
    /\ dOut' = compareReleases(dIn)
    /\ dDone' = TRUE
    /\ UNCHANGED <<dKind, dIn>>
    /\ UNCHANGED notDl

CompareMetrics ==
    /\ dKind = "pair"
    /\ ~dDone
    /\ dOut' = compareMetrics(dIn[1], dIn[2])
    /\ dDone' = TRUE
    /\ UNCHANGED <<dKind, dIn>>
    /\ UNCHANGED notDl

-----------------------------------------------------------------------------
(* The report tools: main *)

\* The sections of the report (the first two of the eight of the scripts).
Sections == << "GLOBAL Website Performance", "HOMEPAGE" >>

\* The file each section reads below <baseDir>/<release>.
sectionFiles ==
    << [ dir |-> <<"data">>,
         name |-> <<"browsertime", ".summary-total", ".json">> ],
       [ dir |-> <<"pages", "www_home-appliances_philips", "HOMEPAGE", "data">>,
         name |-> <<"browsertime", ".pageSummary", ".json">> ] >>

NoReport == [t |-> "none"]

\* The arguments a run is given: none up to all the tool reads.
maxArgs(t) == IF t = "batch" THEN 2 ELSE IF t = "single" THEN 3 ELSE 1 + 2 * Len(Sections)

CmpInit ==
    /\ tool \in {"batch", "pairwise", "single"}
    /\ cArgs \in 0..maxArgs(tool)
    /\ cpc = "start"
    /\ releases = << >>
    /\ secIdx = 1
    /\ relIdx = 1
    /\ metricsByRelease = << >>
    /\ loaded = << >>
    /\ allResults = << >>
    /\ report = NoReport
    /\ loadLog = << >>
    /\ cError = "none"
    /\ cExit = Null

CmpIdle ==
    /\ tool = "batch"
    /\ cArgs = 0
    /\ cpc = "idle"
    /\ releases = << >>
    /\ secIdx = 1
    /\ relIdx = 1
    /\ metricsByRelease = << >>
    /\ loaded = << >>
    /\ allResults = << >>
    /\ report = NoReport
    /\ loadLog = << >>
    /\ cError = "none"
    /\ cExit = Null

\* process.exit(1), or an uncaught exception: the tool ends with status 1.
Die(why) ==
    /\ cpc' = "exited"
    /\ cExit' = "1"
    /\ cError' = why

\* if (process.argv.length < 4) { usage; process.exit(1); }
BatchCheckArgs ==
    /\ tool = "batch"
    /\ cpc = "start"
    /\ IF cArgs < 2
         THEN Die("usage")
         ELSE cpc' = "discover" /\ UNCHANGED <<cExit, cError>>
    /\ UNCHANGED <<tool, cArgs, releases, secIdx, relIdx, metricsByRelease, loaded,
                   allResults, report, loadLog>>
    /\ UNCHANGED notCmp

\* const releases = fs.readdirSync(baseDir).filter(...).sort(...)
BatchDiscover ==
    /\ tool = "batch"
    /\ cpc = "discover"
    /\ \E exists \in BOOLEAN :
         IF exists
           THEN /\ \E S \in SUBSET BaseDirEntries : \E listing \in Listings(S) :
                      releases' = discoverReleases(listing)
                /\ cpc' = "load"
                /\ UNCHANGED <<cExit, cError>>
           ELSE /\ Die("readdirSync")
                /\ UNCHANGED releases
    /\ UNCHANGED <<tool, cArgs, secIdx, relIdx, metricsByRelease, loaded,
                   allResults, report, loadLog>>
    /\ UNCHANGED notCmp

\* releases.forEach(r => { json = loadJson(...); metricsByRelease[r] = extractMetrics(json); })
BatchLoad ==
    /\ tool = "batch"
    /\ cpc = "load"
    /\ relIdx <= Len(releases)
    /\ \E content \in FileContents :
         LET metrics == extractMetrics(loadJsonBatch(content))
         IN /\ loadLog' = Append(loadLog, [sec |-> secIdx, release |-> releases[relIdx],
                                           content |-> content])
            /\ IF metrics = TypeError
                 THEN /\ Die("extractMetrics")
                      /\ UNCHANGED <<metricsByRelease, relIdx>>
                 ELSE /\ metricsByRelease' = assign(metricsByRelease, releases[relIdx], metrics)
                      /\ relIdx' = relIdx + 1
                      /\ UNCHANGED <<cpc, cExit, cError>>
    /\ UNCHANGED <<tool, cArgs, releases, secIdx, loaded, allResults, report>>
    /\ UNCHANGED notCmp

\* const { results } = compareReleases(metricsByRelease); allResults.push(...)
BatchCompare ==
    /\ tool = "batch"
    /\ cpc = "load"
    /\ relIdx > Len(releases)
    /\ allResults' = Append(allResults,
                            [section |-> Sections[secIdx],
                             results |-> compareReleases(metricsByRelease),
                             metricsByRelease |-> metricsByRelease])
    /\ IF secIdx = Len(Sections)
         THEN cpc' = "html" /\ UNCHANGED <<secIdx, relIdx, metricsByRelease>>
         ELSE /\ secIdx' = secIdx + 1
              /\ relIdx' = 1
              /\ metricsByRelease' = << >>
              /\ UNCHANGED cpc
    /\ UNCHANGED <<tool, cArgs, releases, loaded, report, loadLog, cError, cExit>>
    /\ UNCHANGED notCmp

\* fs.writeFileSync(outputFile, html), unless building html threw
BatchWriteHtml(html) ==
    IF html = TypeError
      THEN Die("generateHtml") /\ UNCHANGED report
      ELSE /\ report' = html
           /\ cpc' = "exited"
           /\ cExit' = "0"
           /\ UNCHANGED cError

\* generateHtml(allResults, releases, outputFile)
BatchGenerateHtml ==
    /\ tool = "batch"
    /\ cpc = "html"
    /\ \E halfDown \in BOOLEAN : BatchWriteHtml(generateHtmlBatch(allResults, releases, halfDown))
    /\ UNCHANGED <<tool, cArgs, releases, secIdx, relIdx, metricsByRelease, loaded,
                   allResults, loadLog>>
    /\ UNCHANGED notCmp

\* The sections of a pairwise run and the arguments that name their files:
\* argv[3], argv[4] for the first section, argv[5], argv[6] for the second;
\* compare-results.js has one pair, argv[2] and argv[3].
pairSections == IF tool = "single" THEN << "single" >> ELSE Sections
beforeArg(i) == IF tool = "single" THEN 1 ELSE 2 * i
afterArg(i) == beforeArg(i) + 1
minArgs == IF tool = "single" THEN 2 ELSE 4

\* if (process.argv.length < 6) (scripts) / < 4 (compare-results.js): usage, exit(1)
PairCheckArgs ==
    /\ tool \in {"pairwise", "single"}
    /\ cpc = "start"
    /\ IF cArgs < minArgs
         THEN Die("usage")
         ELSE cpc' = "load" /\ UNCHANGED <<cExit, cError>>
    /\ UNCHANGED <<tool, cArgs, releases, secIdx, relIdx, metricsByRelease, loaded,
                   allResults, report, loadLog>>
    /\ UNCHANGED notCmp

nextSection ==
    IF secIdx = Len(pairSections)
      THEN cpc' = "html" /\ UNCHANGED <<secIdx, relIdx, loaded>>
      ELSE /\ secIdx' = secIdx + 1
           /\ relIdx' = 1
           /\ loaded' = << >>
           /\ UNCHANGED cpc

\* if (!before || !after) return;
PairSkipSection ==
    /\ tool = "pairwise"
    /\ cpc = "load"
    /\ relIdx = 1
    /\ afterArg(secIdx) > cArgs
    /\ nextSection
    /\ UNCHANGED <<tool, cArgs, releases, metricsByRelease, allResults, report,
                   loadLog, cError, cExit>>
    /\ UNCHANGED notCmp

\* const beforeJson = loadJson(...); const afterJson = loadJson(...);
PairLoad ==
    /\ tool \in {"pairwise", "single"}
    /\ cpc = "load"
    /\ relIdx <= 2
    /\ afterArg(secIdx) <= cArgs
    /\ \E content \in FileContents :
         LET json == loadJson(content)
         IN /\ loadLog' = Append(loadLog, [sec |-> secIdx,
                                           release |-> IF relIdx = 1 THEN <<"before">> ELSE <<"after">>,
                                           content |-> content])
            /\ IF json = ProcessExit
                 THEN Die("loadJson") /\ UNCHANGED <<loaded, relIdx>>
                 ELSE /\ loaded' = Append(loaded, json)
                      /\ relIdx' = relIdx + 1
                      /\ UNCHANGED <<cpc, cExit, cError>>
    /\ UNCHANGED <<tool, cArgs, releases, secIdx, metricsByRelease, allResults, report>>
    /\ UNCHANGED notCmp

\* extractMetrics of both documents, compareMetrics, allResults.push
PairCompare ==
    /\ tool \in {"pairwise", "single"}
    /\ cpc = "load"
    /\ relIdx = 3
    /\ LET beforeMetrics == IF tool = "single" THEN extractMetricsRoot(loaded[1])
                            ELSE extractMetrics(loaded[1])
           afterMetrics == IF tool = "single" THEN extractMetricsRoot(loaded[2])
                           ELSE extractMetrics(loaded[2])
       IN IF beforeMetrics = TypeError \/ afterMetrics = TypeError
            THEN /\ Die("extractMetrics")
                 /\ UNCHANGED <<allResults, secIdx, relIdx, loaded>>
            ELSE /\ allResults' = Append(allResults,
                                         [section |-> pairSections[secIdx],
                                          results |-> compareMetrics(beforeMetrics, afterMetrics)])
                 /\ nextSection
                 /\ UNCHANGED <<cExit, cError>>
    /\ UNCHANGED <<tool, cArgs, releases, metricsByRelease, report, loadLog>>
    /\ UNCHANGED notCmp

\* generateHtml(allResults, outputFile)
PairGenerateHtml ==
    /\ tool \in {"pairwise", "single"}
    /\ cpc = "html"
    /\ LET html == generateHtmlPair(allResults)
       IN IF html = TypeError
            THEN Die("generateHtml") /\ UNCHANGED report
            ELSE /\ report' = html
                 /\ cpc' = "exited"
                 /\ cExit' = "0"
                 /\ UNCHANGED cError
    /\ UNCHANGED <<tool, cArgs, releases, secIdx, relIdx, metricsByRelease, loaded,
                   allResults, loadLog>>
    /\ UNCHANGED notCmp

-----------------------------------------------------------------------------
(* runWorkflow *)

WfInit ==
    /\ script \in {"baristina", "homerun"}
    /\ argGiven \in BOOLEAN
    /\ pc = "start"
    /\ trace = << >>
    /\ promise = "none"
    /\ child = "none"
    /\ closeCode = Null
    /\ errorSeen = FALSE
    /\ srcDir \in {NoDir, OldTree}
    /\ destDir \in {NoDir, OldTree}
    /\ beforeCleanup = NoDir
    /\ unlinkFails = {}
    /\ reportChild = "none"
    /\ reportAtCleanup = "none"
    /\ reportAtSuccess = "none"
    /\ successLogged = FALSE
    /\ exitCode = Null

WfIdle ==
    /\ script = "baristina"
    /\ argGiven = FALSE
    /\ pc = "idle"
    /\ trace = << >>
    /\ promise = "none"
    /\ child = "none"
    /\ closeCode = Null
    /\ errorSeen = FALSE
    /\ srcDir = NoDir
    /\ destDir = NoDir
    /\ beforeCleanup = NoDir
    /\ unlinkFails = {}
    /\ reportChild = "none"
    /\ reportAtCleanup = "none"
    /\ reportAtSuccess = "none"
    /\ successLogged = FALSE
    /\ exitCode = Null

\* catch (err) { ...; process.exit(1); }
Catch ==
    /\ pc' = "exited"
    /\ exitCode' = "1"

\* if (process.argv.length < 3) process.exit(1): only baristina has the check.
CheckArgs ==
    /\ pc = "start"
    /\ IF script = "baristina" /\ ~argGiven
         THEN Catch
         ELSE pc' = "step1" /\ exitCode' = exitCode
    /\ UNCHANGED <<script, argGiven, trace, promise, child, closeCode, errorSeen,
                   srcDir, destDir, beforeCleanup, unlinkFails, reportChild,
                   reportAtCleanup, reportAtSuccess, successLogged>>
    /\ UNCHANGED notWf

\* Step 1: await removeDirectory(releaseName), the call of fs.rm.
RemoveOldBegin ==
    /\ pc = "step1"
    /\ pc' = "rmOld"
    /\ trace' = Append(trace, "rmOld.begin")
    /\ UNCHANGED <<script, argGiven, promise, child, closeCode, errorSeen,
                   srcDir, destDir, beforeCleanup, unlinkFails, reportChild,
                   reportAtCleanup, reportAtSuccess, successLogged, exitCode>>
    /\ UNCHANGED notWf

\* fs.rm settles: { recursive, force } removes the folder; an error is rethrown.
RemoveOldEnd ==
    /\ pc = "rmOld"
    /\ \E ok \in BOOLEAN :
         IF ok
           THEN /\ srcDir' = NoDir
                /\ trace' = Append(trace, "rmOld.end")
                /\ pc' = "step2"
                /\ exitCode' = exitCode
           ELSE /\ Catch
                /\ UNCHANGED <<srcDir, trace>>
    /\ UNCHANGED <<script, argGiven, promise, child, closeCode, errorSeen,
                   destDir, beforeCleanup, unlinkFails, reportChild,
                   reportAtCleanup, reportAtSuccess, successLogged>>
    /\ UNCHANGED notWf

\* Step 2: executeSitespeedCommand: spawn, register the handlers, return the promise.
executeSitespeedCommand ==
    /\ pc = "step2"
    /\ pc' = "sitespeed"
    /\ promise' = "pending"
    /\ child' = "running"
    /\ trace' = Append(trace, "sitespeed.begin")
    /\ UNCHANGED <<script, argGiven, closeCode, errorSeen,
                   srcDir, destDir, beforeCleanup, unlinkFails, reportChild,
                   reportAtCleanup, reportAtSuccess, successLogged, exitCode>>
    /\ UNCHANGED notWf

\* Mutant: resolve() / reject() have no effect, the promise stays pending.
settle_Never(p, outcome) == p

\* Mutant: resolve() overrides an earlier reject().
settle_ResolveWins(p, outcome) == IF p = "pending" \/ outcome = "resolved" THEN outcome ELSE p

\* Mutant: a later resolve() / reject() overrides the earlier one.
settle_LastWins(p, outcome) == outcome

\* resolve() / reject(): a promise settles once, later calls have no effect.
settle(p, outcome) == IF p = "pending" THEN outcome ELSE p

\* Mutant: only a truthy code rejects (if (code) instead of if (code !== 0)).
closeOutcome_NullIsSuccess(code) == IF code = "1" THEN "rejected" ELSE "resolved"

\* Mutant: the 'close' handler resolves whatever the code.
closeOutcome_IgnoresCode(code) == "resolved"

\* child.on('close', code => code !== 0 ? reject(...) : resolve())
closeOutcome(code) == IF code # "0" THEN "rejected" ELSE "resolved"

\* The subprocess ends: what it wrote is in <release>, 'close' is handled.
OnClose(code) ==
    /\ pc # "exited"
    /\ child = "running"
    /\ child' = "closed"
    /\ closeCode' = code
    /\ promise' = settle(promise, closeOutcome(code))
    /\ \E out \in (IF code = "0" THEN Trees \cup {NoDir} ELSE {NoDir, OldTree}) :
         srcDir' = out
    /\ UNCHANGED <<script, argGiven, pc, trace, errorSeen,
                   destDir, beforeCleanup, unlinkFails, reportChild,
                   reportAtCleanup, reportAtSuccess, successLogged, exitCode>>
    /\ UNCHANGED notWf

\* child.on('error', err => reject(err))
OnError ==
    /\ pc # "exited"
    /\ child = "running"
    /\ ~errorSeen
    /\ errorSeen' = TRUE
    /\ promise' = settle(promise, "rejected")
    /\ UNCHANGED <<script, argGiven, pc, trace, child, closeCode,
                   srcDir, destDir, beforeCleanup, unlinkFails, reportChild,
                   reportAtCleanup, reportAtSuccess, successLogged, exitCode>>
    /\ UNCHANGED notWf

\* await executeSitespeedCommand(...) continues once the promise has settled.
SitespeedSettled ==
    /\ pc = "sitespeed"
    /\ promise # "pending"
    /\ IF promise = "resolved"
         THEN /\ pc' = "step3"
              /\ trace' = Append(trace, "sitespeed.end")
              /\ exitCode' = exitCode
         ELSE /\ Catch
              /\ trace' = trace
    /\ UNCHANGED <<script, argGiven, promise, child, closeCode, errorSeen,
                   srcDir, destDir, beforeCleanup, unlinkFails, reportChild,
                   reportAtCleanup, reportAtSuccess, successLogged>>
    /\ UNCHANGED notWf

\* Step 3: await removeDirectory(`<site>/<release>`).
RemoveDestBegin ==
    /\ pc = "step3"
    /\ pc' = "rmDest"
    /\ trace' = Append(trace, "rmDest.begin")
    /\ UNCHANGED <<script, argGiven, promise, child, closeCode, errorSeen,
                   srcDir, destDir, beforeCleanup, unlinkFails, reportChild,
                   reportAtCleanup, reportAtSuccess, successLogged, exitCode>>
    /\ UNCHANGED notWf

RemoveDestEnd ==
    /\ pc = "rmDest"
    /\ \E ok \in BOOLEAN :
         IF ok
           THEN /\ destDir' = NoDir
                /\ trace' = Append(trace, "rmDest.end")
                /\ pc' = "move"
                /\ exitCode' = exitCode
           ELSE /\ Catch
                /\ UNCHANGED <<destDir, trace>>
    /\ UNCHANGED <<script, argGiven, promise, child, closeCode, errorSeen,
                   srcDir, beforeCleanup, unlinkFails, reportChild,
                   reportAtCleanup, reportAtSuccess, successLogged>>
    /\ UNCHANGED notWf

\* await moveDirectory(sourceFolder, destinationFolder): the call.
MoveBegin ==
    /\ pc = "move"
    /\ pc' = "moving"
    /\ trace' = Append(trace, "move.begin")
    /\ UNCHANGED <<script, argGiven, promise, child, closeCode, errorSeen,
                   srcDir, destDir, beforeCleanup, unlinkFails, reportChild,
                   reportAtCleanup, reportAtSuccess, successLogged, exitCode>>
    /\ UNCHANGED notWf

\* fs.mkdir then fs.rename: rename fails when the source folder does not exist.
MoveEnd ==
    /\ pc = "moving"
    /\ \E ok \in BOOLEAN :
         IF ok /\ existsSync(srcDir, << >>)
           THEN /\ destDir' = srcDir
                /\ srcDir' = NoDir
                /\ trace' = Append(trace, "move.end")
                /\ pc' = IF script = "homerun" THEN "report" ELSE "cleanup"
                /\ exitCode' = exitCode
           ELSE /\ Catch
                /\ UNCHANGED <<srcDir, destDir, trace>>
    /\ UNCHANGED <<script, argGiven, promise, child, closeCode, errorSeen,
                   beforeCleanup, unlinkFails, reportChild,
                   reportAtCleanup, reportAtSuccess, successLogged>>
    /\ UNCHANGED notWf

\* Step 4 (homerun): generateHTMLReport spawns compare-results.js, registers
\* the listeners and returns; nothing awaits the subprocess.
generateHTMLReport ==
    /\ pc = "report"
    /\ script = "homerun"
    /\ reportChild' = "running"
    /\ trace' = Append(Append(trace, "report.begin"), "report.end")
    /\ pc' = "cleanup"
    /\ UNCHANGED <<script, argGiven, promise, child, closeCode, errorSeen,
                   srcDir, destDir, beforeCleanup, unlinkFails,
                   reportAtCleanup, reportAtSuccess, successLogged, exitCode>>
    /\ UNCHANGED notWf

\* The compare-results.js subprocess ends, whatever the workflow is doing.
ReportChildExit ==
    /\ reportChild = "running"
    /\ reportChild' = "exited"
    /\ UNCHANGED <<script, argGiven, pc, trace, promise, child, closeCode,
                   errorSeen, srcDir, destDir, beforeCleanup, unlinkFails,
                   reportAtCleanup, reportAtSuccess, successLogged, exitCode>>
    /\ UNCHANGED notWf

\* Last step: await removeUnnecessaryFiles(`<site>/<release>`), synchronous.
Cleanup ==
    /\ pc = "cleanup"
    /\ \E failing \in {{}} \cup {{f} : f \in destDir.files} :
         /\ unlinkFails' = failing
         /\ destDir' = removeUnnecessaryFiles(destDir, << >>, failing)
    /\ beforeCleanup' = destDir
    /\ reportAtCleanup' = reportChild
    /\ trace' = Append(Append(trace, "cleanup.begin"), "cleanup.end")
    /\ pc' = "cleaned"
    /\ UNCHANGED <<script, argGiven, promise, child, closeCode, errorSeen,
                   srcDir, reportChild, reportAtSuccess, successLogged, exitCode>>
    /\ UNCHANGED notWf

\* console.log('\nWorkflow completed successfully!')
LogSuccess ==
    /\ pc = "cleaned"
    /\ successLogged' = TRUE
    /\ reportAtSuccess' = reportChild
    /\ pc' = "done"
    /\ UNCHANGED <<script, argGiven, trace, promise, child, closeCode, errorSeen,
                   srcDir, destDir, beforeCleanup, unlinkFails, reportChild,
                   reportAtCleanup, exitCode>>
    /\ UNCHANGED notWf

\* Nothing is left to wait for: the process ends with status 0.
ExitNormally ==
    /\ pc = "done"
    /\ reportChild # "running"
    /\ pc' = "exited"
    /\ exitCode' = "0"
    /\ UNCHANGED <<script, argGiven, trace, promise, child, closeCode, errorSeen,
                   srcDir, destDir, beforeCleanup, unlinkFails, reportChild,
                   reportAtCleanup, reportAtSuccess, successLogged>>
    /\ UNCHANGED notWf

WfNext ==
    \/ CheckArgs
    \/ RemoveOldBegin
    \/ RemoveOldEnd
    \/ executeSitespeedCommand
    \/ \E code \in CloseCodes : OnClose(code)
    \/ OnError
    \/ SitespeedSettled
    \/ RemoveDestBegin
    \/ RemoveDestEnd
    \/ MoveBegin
    \/ MoveEnd
    \/ generateHTMLReport
    \/ ReportChildExit
    \/ Cleanup
    \/ LogSuccess
    \/ ExitNormally

WorkflowInit == WfInit /\ ExIdle /\ CmpIdle /\ DlIdle /\ DsIdle /\ ScIdle

SpecWorkflow == WorkflowInit /\ [][WfNext]_vars

\* The steps runWorkflow itself takes: the event loop runs each continuation
\* that is ready (a settled fs promise, a settled await).
WfSteps ==
    \/ CheckArgs
    \/ RemoveOldBegin
    \/ RemoveOldEnd
    \/ executeSitespeedCommand
    \/ SitespeedSettled
    \/ RemoveDestBegin
    \/ RemoveDestEnd
    \/ MoveBegin
    \/ MoveEnd
    \/ generateHTMLReport
    \/ Cleanup
    \/ LogSuccess
    \/ ExitNormally

\* The sitespeed.io subprocess emits 'close' or 'error'.
ChildEvent == (\E code \in CloseCodes : OnClose(code)) \/ OnError

\* runWorkflow with a subprocess that eventually emits 'close' or 'error';
\* the compare-results.js subprocess may run for ever.
SpecWorkflowLive ==
    WorkflowInit /\ [][WfNext]_vars /\ WF_vars(WfSteps) /\ WF_vars(ChildEvent)

ExtractInit == ExInit /\ WfIdle /\ CmpIdle /\ DlIdle /\ DsIdle /\ ScIdle

ExNext == ExtractScripts \/ ExtractRoot

SpecExtract == ExtractInit /\ [][ExNext]_vars

CompareInit == CmpInit /\ WfIdle /\ ExIdle /\ DlIdle /\ DsIdle /\ ScIdle

CmpNext ==
    \/ BatchCheckArgs
    \/ BatchDiscover
    \/ BatchLoad
    \/ BatchCompare
    \/ BatchGenerateHtml
    \/ PairCheckArgs
    \/ PairSkipSection
    \/ PairLoad
    \/ PairCompare
    \/ PairGenerateHtml

SpecCompare == CompareInit /\ [][CmpNext]_vars

DeltaInit == DlInit /\ WfIdle /\ ExIdle /\ CmpIdle /\ DsIdle /\ ScIdle

DlNext == CompareReleases \/ CompareMetrics

SpecDelta == DeltaInit /\ [][DlNext]_vars

DiscoverInit == DsInit /\ WfIdle /\ ExIdle /\ CmpIdle /\ DlIdle /\ ScIdle

DsNext == Discover

SpecDiscover == DiscoverInit /\ [][DsNext]_vars

ScoreInit == ScInit /\ WfIdle /\ ExIdle /\ CmpIdle /\ DlIdle /\ DsIdle

ScNext == ScoreMetric \/ CalculatePerfScore

SpecScore == ScoreInit /\ [][ScNext]_vars

-----------------------------------------------------------------------------
(* Properties of runWorkflow *)

Range(s) == { s[i] : i \in DOMAIN s }

IsPrefix(s, t) == Len(s) <= Len(t) /\ SubSeq(t, 1, Len(s)) = s

\* C1: in the homerun workflow the compare-results.js subprocess has exited
\* before removeUnnecessaryFiles starts and before success is reported.
C1_ReportDoneBeforeCleanup ==
    /\ ("cleanup.begin" \in Range(trace) /\ script = "homerun")
          => reportAtCleanup = "exited"
    /\ (successLogged /\ script = "homerun") => reportAtSuccess = "exited"

StepOrder ==
    << "rmOld.begin", "rmOld.end", "sitespeed.begin", "sitespeed.end",
       "rmDest.begin", "rmDest.end", "move.begin", "move.end",
       "cleanup.begin", "cleanup.end" >>

IsOrderedStep(e) == e \notin {"report.begin", "report.end"}

\* C2: in both workflows the steps remove old folder, sitespeed.io, remove
\* destination, move, clean up happen in this order, each beginning after the
\* previous one has finished, and the move never begins before the
\* sitespeed.io subprocess has closed with exit code 0.
C2_StepsInOrder ==
    /\ IsPrefix(SelectSeq(trace, IsOrderedStep), StepOrder)
    /\ "move.begin" \in Range(trace) => (child = "closed" /\ closeCode = "0")
    /\ "rmDest.begin" \in Range(trace) => (child = "closed" /\ closeCode = "0")

C2_Witness ==
    /\ successLogged
    /\ SelectSeq(trace, IsOrderedStep) = StepOrder

SitespeedFailed == errorSeen \/ (child = "closed" /\ closeCode # "0")

\* C3: if the sitespeed.io subprocess closes with a non-zero code or cannot
\* be spawned, the workflow ends with exit status 1, never reports success and
\* performs none of the later steps.
C3_FailureStopsWorkflow ==
    SitespeedFailed =>
        /\ ~successLogged
        /\ trace = << "rmOld.begin", "rmOld.end", "sitespeed.begin" >>
        /\ reportChild = "none"
        /\ pc \in {"sitespeed", "exited"}
        /\ pc = "sitespeed" => promise = "rejected"
        /\ pc = "exited" => exitCode = "1"

C3_Witness ==
    /\ SitespeedFailed
    /\ pc = "exited"
    /\ exitCode = "1"

CleanupReturned == "cleanup.end" \in Range(trace)

IsHarGz(name) ==
    Len(name) >= 2 /\ name[Len(name) - 1] = ".har" /\ name[Len(name)] = ".gz"

IsJson(name) == Len(name) >= 1 /\ name[Len(name)] = ".json"

ClaimedDeleted(name) ==
    \/ IsHarGz(name)
    \/ /\ IsJson(name)
       /\ name # <<"browsertime", ".pageSummary", ".json">>
       /\ name # <<"browsertime", ".summary-total", ".json">>

-----------------------------------------------------------------------------
(* Properties of extractMetrics *)

HasObject(x, k) == x.t = "obj" /\ k \in DOMAIN x.f /\ x.f[k].t = "obj"

\* The web-vitals object of a document under either nesting convention.
DocVitals(json) ==
    IF HasObject(json, "statistics") /\ HasObject(json.f.statistics, "googleWebVitals")
      THEN json.f.statistics.f.googleWebVitals
    ELSE IF HasObject(json, "googleWebVitals") THEN json.f.googleWebVitals
    ELSE EmptyObj

\* The field a document carries for a metric, Undefined when it carries none.
DocField(json, m) ==
    LET g == DocVitals(json)
    IN IF vitalsField[m] \in DOMAIN g.f THEN g.f[vitalsField[m]] ELSE Undefined

\* C7: extractMetrics never throws and returns the five keys for every
\* parsed JSON value (JSON null, primitives and arrays included); a metric
\* that is not found is null.
C7_ExtractNeverThrows ==
    exDone =>
        /\ exOut # TypeError
        /\ DOMAIN exOut = MetricSet
        /\ \A m \in MetricSet : DocField(exJson, m) = Undefined => exOut[m] = JsNull

\* C8: extraction keeps absence and zero apart: a metric is null only when
\* it is absent, a metric reported as 0 (itself or as its .median) is
\* extracted as 0, and no absent metric is extracted as 0.
C8_ZeroIsNotAbsence ==
    (exDone /\ exOut # TypeError) =>
        \A m \in MetricSet :
            LET f == DocField(exJson, m)
            IN /\ exOut[m] = JsNull => f = Undefined
               /\ f = Num(0) => exOut[m] = Num(0)
               /\ f = Obj([median |-> Num(0)]) => exOut[m] = Num(0)
               /\ f = Undefined => exOut[m] # Num(0)

MedianElseNumber(f) ==
    IF f.t = "obj" /\ "median" \in DOMAIN f.f THEN f.f.median
    ELSE IF f.t = "num" THEN f
    ELSE JsNull

\* C9: extractMetrics finds the web-vitals object under either nesting
\* convention and returns, per metric, the .median of an object carrying one,
\* otherwise the field itself when it is a number, otherwise null.
C9_MedianElseFieldElseNull ==
    (exDone /\ exOut # TypeError) =>
        \A m \in MetricSet : exOut[m] = MedianElseNumber(DocField(exJson, m))

-----------------------------------------------------------------------------
(* Properties of the report tools *)

AllNull == [ m \in MetricSet |-> JsNull ]

LogEntries == { loadLog[i] : i \in DOMAIN loadLog }

\* The metrics the tool holds for a load, once the load has been stored.
StoredMetrics(e) ==
    IF e.sec <= Len(allResults) THEN at(allResults[e.sec].metricsByRelease, e.release)
    ELSE at(metricsByRelease, e.release)

IsStored(e) ==
    \/ e.sec <= Len(allResults)
    \/ e.sec = secIdx /\ hasKey(metricsByRelease, e.release)

\* The cell the report shows for a load: section, metric row, release column.
ReportCell(e, i) ==
    LET col == CHOOSE c \in DOMAIN report.releases : report.releases[c] = e.release
    IN report.sections[e.sec].rows[i].cells[col]

\* C5: in batch mode a JSON file that does not exist or does not parse makes
\* that release's metrics for that section all-null and the run continues:
\* the tool does not end because of it, and the report is written with every
\* section and with the values of every other release.
C5_BadFileIsSoftFailure ==
    tool = "batch" =>
        /\ \A e \in LogEntries :
              readFails(e.content) =>
                  /\ IsStored(e)
                  /\ StoredMetrics(e) = AllNull
        /\ cError = "extractMetrics" => loadLog[Len(loadLog)].content = JsNull
        /\ cError = "generateHtml" =>
              \/ releases = << >>
              \/ \E e \in LogEntries : ~readFails(e.content) /\ StoredMetrics(e)["CLS"].t = "obj"
        /\ cError \in {"none", "usage", "readdirSync", "extractMetrics", "generateHtml"}
        /\ (cpc = "exited" /\ cError = "none") =>
              /\ report # NoReport
              /\ [ i \in DOMAIN report.sections |-> report.sections[i].section ] = Sections
              /\ \A e \in LogEntries : \A i \in DOMAIN MetricKeys :
                    ReportCell(e, i) =
                        IF readFails(e.content) THEN Dash
                        ELSE formatValue(extractMetrics(e.content)[MetricKeys[i]],
                                         metricUnits[MetricKeys[i]])

C5_Witness ==
    /\ tool = "batch"
    /\ report # NoReport
    /\ Len(releases) >= 2
    /\ \E e \in LogEntries : e.sec = 1 /\ readFails(e.content)
    /\ \E e \in LogEntries : e.sec = 1 /\ e.content = DocA
    /\ \E e \in LogEntries : e.sec = 2 /\ e.content = DocA

\* C6: in pairwise mode a loaded JSON file that does not exist or does not
\* parse ends the process at once with exit status 1; no report is written
\* and no later section is processed.
C6_BadFileIsHardFailure ==
    tool \in {"pairwise", "single"} =>
        \A i \in DOMAIN loadLog :
            readFails(loadLog[i].content) =>
                /\ i = Len(loadLog)
                /\ cpc = "exited"
                /\ cExit = "1"
                /\ cError = "loadJson"
                /\ report = NoReport
                /\ Len(allResults) < loadLog[i].sec
                /\ secIdx = loadLog[i].sec

C6_Witness ==
    /\ tool = "pairwise"
    /\ cpc = "exited"
    /\ Len(allResults) = 1
    /\ loadLog # << >>
    /\ loadLog[Len(loadLog)].sec = 2
    /\ readFails(loadLog[Len(loadLog)].content)

\* C10: in compareReleases every record of the first release has diff = null
\* and pct = null; for the release at position k > 1 and every metric present
\* in both, diff = value(k) - value(k-1) and pct = diff / value(k-1) * 100,
\* k-1 being the immediately preceding entry of the sorted release sequence.
C10_DeltaAgainstPredecessor ==
    \A s \in DOMAIN allResults :
        tool = "batch" =>
            LET mbr == allResults[s].metricsByRelease
                res == allResults[s].results
            IN /\ keys(mbr) = releases
               /\ keys(res) = releases
               /\ \A k \in DOMAIN res :
                     \A j \in DOMAIN res[k].v : res[k].v[j].value = mbr[k].v[res[k].v[j].metric]
               /\ Len(res) >= 1 =>
                     \A j \in DOMAIN res[1].v :
                         res[1].v[j].diff = JsNull /\ res[1].v[j].pct = JsNull
               /\ \A k \in 2..Len(res) : \A m \in MetricSet :
                     LET cur == mbr[k].v[m]
                         prev == mbr[k - 1].v[m]
                     IN (~isNullish(cur) /\ ~isNullish(prev)) =>
                           \E j \in DOMAIN res[k].v :
                              /\ res[k].v[j].metric = m
                              /\ IF cur.t = "num" /\ prev.t = "num"
                                   THEN /\ res[k].v[j].diff = Num(cur.n - prev.n)
                                        /\ res[k].v[j].pct = Ratio((cur.n - prev.n) * 100, prev.n)
                                   ELSE /\ res[k].v[j].diff = NaN
                                        /\ res[k].v[j].pct = NaN
                              /\ \A j2 \in DOMAIN res[k].v : res[k].v[j2].metric = m => j2 = j

\* release-9, release-10, release-30 with LCP 2400, 2600, 2400: release-10
\* shows +200 and +8.33 %, release-30 is compared with release-10 (-200).
C10_Witness ==
    /\ tool = "batch"
    /\ report # NoReport
    /\ releases = << <<"release", "-", "9">>, <<"release", "-", "1", "0">>,
                     <<"release", "-", "3", "0">> >>
    /\ LET res == allResults[1].results
           second == find(res[2].v, "LCP")
           third == find(res[3].v, "LCP")
       IN /\ second # Undefined
          /\ third # Undefined
          /\ second.diff = Num(200)
          /\ formatPct(second.pct) = [t |-> "%", hundredths |-> 833]
          /\ third.diff = Num(-200)
          /\ report.sections[1].rows[3].metric = "LCP"
          /\ report.sections[1].rows[3].delta = [t |-> "ms", n |-> -200]

-----------------------------------------------------------------------------
(* Properties of compareReleases and compareMetrics *)

RecordsOf(recs, m) == { j \in DOMAIN recs : recs[j].metric = m }

\* The value release k of the input has for metric m.
ValueAt(k, m) == dIn[k].v[m]

PairRecordIffBothPresent ==
    (dDone /\ dKind = "pair") =>
        \A m \in MetricSet :
            LET present == ~isNullish(dIn[1][m]) /\ ~isNullish(dIn[2][m])
            IN /\ Cardinality(RecordsOf(dOut, m)) = (IF present THEN 1 ELSE 0)
               /\ \A j \in RecordsOf(dOut, m) :
                     dOut[j].before = dIn[1][m] /\ dOut[j].after = dIn[2][m]

\* C11 as stated: a metric that is null in either of the two compared releases
\* yields no record: compareMetrics emits a record only when before and after
\* are both non-null, and compareReleases emits no record for release k and
\* metric m when m is null in release k or in its predecessor.
C11_NoRecordIfEitherNull ==
    /\ PairRecordIffBothPresent
    /\ (dDone /\ dKind = "releases") =>
          \A k \in DOMAIN dIn : \A m \in MetricSet :
              (isNullish(ValueAt(k, m)) \/ (k > 1 /\ isNullish(ValueAt(k - 1, m))))
                  => RecordsOf(dOut[k].v, m) = {}

\* C11 amended: compareMetrics emits a record for a metric exactly when before
\* and after are both non-null; compareReleases emits a record for release k
\* and metric m exactly when m is non-null in release k, and when m is null in
\* the predecessor that record carries diff = null and pct = null (never a
\* zero delta).
C11_RecordIffCurrentPresent ==
    /\ PairRecordIffBothPresent
    /\ (dDone /\ dKind = "releases") =>
          \A k \in DOMAIN dIn : \A m \in MetricSet :
              LET recs == dOut[k].v
              IN /\ Cardinality(RecordsOf(recs, m)) =
                        (IF isNullish(ValueAt(k, m)) THEN 0 ELSE 1)
                 /\ \A j \in RecordsOf(recs, m) :
                       /\ recs[j].value = ValueAt(k, m)
                       /\ (k > 1 /\ isNullish(ValueAt(k - 1, m))) =>
                              recs[j].diff = JsNull /\ recs[j].pct = JsNull

C11_Witness ==
    /\ dDone
    /\ dKind = "releases"
    /\ Len(dIn) = 3
    /\ ValueAt(1, "LCP") = Num(2400)
    /\ ValueAt(2, "LCP") = JsNull
    /\ ValueAt(3, "LCP") = Num(2600)
    /\ RecordsOf(dOut[2].v, "LCP") = {}
    /\ \E j \in RecordsOf(dOut[3].v, "LCP") :
          dOut[3].v[j].value = Num(2600) /\ dOut[3].v[j].diff = JsNull

\* C12: in compareReleases a record carries diff = null and pct = null exactly
\* when there is no previous release or the previous release's value for the
\* metric is null; in every other case diff is a number.
C12_NullDeltaIffNoPrevious ==
    (dDone /\ dKind = "releases") =>
        \A k \in DOMAIN dOut : \A j \in DOMAIN dOut[k].v :
            LET r == dOut[k].v[j]
                noPrevious == k = 1 \/ isNullish(ValueAt(k - 1, r.metric))
            IN /\ (r.diff = JsNull /\ r.pct = JsNull) <=> noPrevious
               /\ ~noPrevious => r.diff.t = "num"

\* C13: whenever the previous value of a metric is exactly 0, pct is null
\* (rendered 'N/A') whatever the current value, and diff is current - 0; in
\* compareReleases and in compareMetrics.
C13_ZeroPreviousGivesNoPercent ==
    dDone =>
        IF dKind = "releases"
          THEN \A k \in 2..Len(dIn) : \A m \in MetricSet :
                   (ValueAt(k - 1, m) = Num(0) /\ ~isNullish(ValueAt(k, m))) =>
                       \E j \in RecordsOf(dOut[k].v, m) :
                           LET r == dOut[k].v[j]
                           IN /\ r.pct = JsNull
                              /\ formatPct(r.pct) = NotApplicable
                              /\ r.diff = jsMinus(ValueAt(k, m), Num(0))
                              /\ ValueAt(k, m).t = "num" => r.diff = ValueAt(k, m)
          ELSE \A m \in MetricSet :
                   (dIn[1][m] = Num(0) /\ ~isNullish(dIn[2][m])) =>
                       \E j \in RecordsOf(dOut, m) :
                           /\ dOut[j].pct = JsNull
                           /\ formatPct(dOut[j].pct) = NotApplicable
                           /\ dOut[j].diff = jsMinus(dIn[2][m], Num(0))
                           /\ dIn[2][m].t = "num" => dOut[j].diff = dIn[2][m]

C13_Witness ==
    /\ dDone
    /\ dKind = "releases"
    /\ Len(dIn) >= 2
    /\ ValueAt(1, "TBT") = Num(0)
    /\ ValueAt(2, "TBT") = Num(2400)
    /\ \E j \in RecordsOf(dOut[2].v, "TBT") :
          dOut[2].v[j].diff = Num(2400) /\ dOut[2].v[j].pct = JsNull

-----------------------------------------------------------------------------
(* Properties of the batch discovery *)

\* A name of the form release-<N>, N an integer.
IsReleaseN(name) ==
    /\ Len(name) >= 3
    /\ name[1] = "release"
    /\ name[2] = "-"
    /\ \A i \in 3..Len(name) : name[i] \in Digits

NumberOf(name) == leadingDigits(SubSeq(name, 3, Len(name)), 0)

\* C14: the discovery yields exactly the subdirectories named release-<N>,
\* N an integer (plain files and other names are excluded), ordered strictly
\* ascending by the numeric value of N.
C14_DiscoversReleaseDirsAscending ==
    dsDone =>
        /\ { dsOut[i] : i \in DOMAIN dsOut } =
              { dsListing[i].name : i \in { j \in DOMAIN dsListing :
                    dsListing[j].isDirectory /\ IsReleaseN(dsListing[j].name) } }
        /\ \A i, j \in DOMAIN dsOut :
              i < j => NumberOf(dsOut[i]) < NumberOf(dsOut[j])

-----------------------------------------------------------------------------
(* Properties of the score *)

\* Two numbers of the same value
SameValue(a, b) == numer(a) * denom(b) = numer(b) * denom(a)

ScoreOf(m) == logNormalScore(scIn[m], scoreRefs[m].median, scoreRefs[m].podr)

Present == { m \in MetricSet : scIn[m] # JsNull }

Numeric == \A m \in MetricSet : scIn[m] = JsNull \/ scIn[m].t = "num"

RECURSIVE WeightedSum(_)
WeightedSum(S) ==
    IF S = {} THEN 0
    ELSE LET m == CHOOSE x \in S : TRUE
         IN ScoreOf(m).n * weights[m] + WeightedSum(S \ {m})

RECURSIVE WeightSum(_)
WeightSum(S) ==
    IF S = {} THEN 0
    ELSE LET m == CHOOSE x \in S : TRUE IN weights[m] + WeightSum(S \ {m})

\* C15: calculatePerfScore returns round(sum(score_i * weight_i) / sum(weight_i))
\* over exactly the metrics whose value is non-null, with weights FCP 0.10,
\* LCP 0.25, TBT 0.30, CLS 0.15, TTFB 0.20: a null metric adds to neither
\* sum, so when all present metrics score s the aggregate is s.
C15_AggregateOverPresentMetrics ==
    (scDone /\ scKind = "perf" /\ Numeric /\ Present # {}) =>
        /\ weights = [FCP |-> 10, LCP |-> 25, TBT |-> 30, CLS |-> 15, TTFB |-> 20]
        /\ scOut.t = "num"
        /\ 2 * WeightedSum(Present) - WeightSum(Present) <= 2 * WeightSum(Present) * scOut.n
        /\ 2 * WeightSum(Present) * scOut.n <= 2 * WeightedSum(Present) + WeightSum(Present)
        /\ \A s \in 0..100 : (\A m \in Present : ScoreOf(m) = Num(s)) => scOut = Num(s)

C15_Witness ==
    /\ scDone
    /\ scKind = "perf"
    /\ scIn = [TTFB |-> JsNull, FCP |-> medianOf("FCP"), LCP |-> podrOf("LCP"),
               TBT |-> scaled(medianOf("TBT"), 1, 2), CLS |-> JsNull]
    /\ ScoreOf("FCP") = Num(50)
    /\ ScoreOf("LCP") = Num(37)
    /\ ScoreOf("TBT") = Num(76)
    /\ scOut = Num(57)

\* C17: for each metric's reference pair (m, p), logNormalScore(m, m, p) is 50
\* and logNormalScore(p, m, p) is approximately 0 within rounding; metrics at
\* the five medians give an aggregate of 50 (+-2).
C17_ReferencePoints ==
    scDone =>
        IF scKind = "metric"
          THEN /\ SameValue(scIn.v1, medianOf(scIn.metric)) => scOut[1] = Num(50)
               /\ SameValue(scIn.v1, podrOf(scIn.metric)) =>
                      (scOut[1].t = "num" /\ scOut[1].n <= 2)
          ELSE (\A m \in MetricSet : scIn[m] = medianOf(m)) =>
                   (scOut.t = "num" /\ scOut.n \in 48..52)

\* C18: for every metric's reference pair and positive values v1 <= v2, the
\* score of v1 is at least the score of v2, and every score of a non-null
\* value is an integer in 0..100.
C18_ScoreMonotoneAndBounded ==
    (scDone /\ scKind = "metric") =>
        /\ scOut[1].t = "num"
        /\ scOut[2].t = "num"
        /\ scOut[1].n \in 0..100
        /\ scOut[2].n \in 0..100
        /\ scOut[1].n >= scOut[2].n

C18_Witness ==
    /\ scDone
    /\ scKind = "metric"
    /\ scIn.metric = "FCP"
    /\ SameValue(scIn.v1, medianOf("FCP"))
    /\ SameValue(scIn.v2, podrOf("FCP"))
    /\ scOut = << Num(50), Num(35) >>

-----------------------------------------------------------------------------
(* Properties of the batch report: score badge and delta columns *)

Written == tool = "batch" /\ report # NoReport

\* The metrics section s holds for the latest release and for the one before it.
LatestMetrics(s) == at(allResults[s].metricsByRelease, releases[Len(releases)])
PreviousMetrics(s) == at(allResults[s].metricsByRelease, releases[Len(releases) - 1])

IsInteger(v) == v.t = "num" /\ ~("d" \in DOMAIN v)

\* C16: for any release sequence in which the latest release, the previous
\* release, or both have all five metrics null, generateHtml does not raise
\* and neither the score badge nor the score difference shown is NaN: the
\* badge is an integer in [0,100] (0 for an all-null latest release) and the
\* difference is an integer or the placeholder.
C16_AllNullAggregateGuarded ==
    (tool = "batch" /\ cpc = "exited" /\ Len(allResults) = Len(Sections) /\ releases # << >>) =>
        \A s \in DOMAIN allResults :
            (\/ LatestMetrics(s) = AllNull
             \/ Len(releases) > 1 /\ PreviousMetrics(s) = AllNull) =>
                /\ cError = "generateHtml" =>
                      \E e \in LogEntries : ~readFails(e.content) /\ StoredMetrics(e)["CLS"].t = "obj"
                /\ report # NoReport =>
                      LET badge == report.sections[s].badge
                      IN /\ IsInteger(badge.score)
                         /\ badge.score.n \in 0..100
                         /\ LatestMetrics(s) = AllNull => badge.score = Num(0)
                         /\ \/ badge.scoreDiff = Placeholder
                            \/ IsInteger(badge.scoreDiff.value)

\* The difference the latest release has against its immediate predecessor.
LatestDiff(cur, prev) ==
    IF isNullish(cur) \/ isNullish(prev) THEN JsNull
    ELSE IF cur.t = "num" /\ prev.t = "num" THEN Num(cur.n - prev.n)
    ELSE NaN

\* C19: in the batch report each metric row's delta and delta% cells show the
\* latest release's diff and pct against its immediate predecessor, and the
\* arrow is up exactly when that diff > 0, down exactly when diff < 0 and
\* right otherwise; with a single release every row shows '-' / 'N/A' /
\* right, the score difference shows the placeholder and the score badge is
\* still produced.
C19_RowsShowLatestDelta ==
    Written =>
        \A s \in DOMAIN report.sections :
            /\ \A i \in DOMAIN MetricKeys :
                  LET row == report.sections[s].rows[i]
                      m == MetricKeys[i]
                      cur == LatestMetrics(s)[m]
                      prev == IF Len(releases) > 1 THEN PreviousMetrics(s)[m] ELSE JsNull
                      diff == LatestDiff(cur, prev)
                  IN /\ row.metric = m
                     /\ row.delta = IF isNullish(diff) THEN Dash
                                    ELSE formatValue(diff, metricUnits[m])
                     /\ row.pct = IF isNullish(diff) \/ prev = Num(0) THEN NotApplicable
                                  ELSE formatPct(jsPercent(diff, prev))
                     /\ row.arrow = "up" <=> (diff.t = "num" /\ diff.n > 0)
                     /\ row.arrow = "down" <=> (diff.t = "num" /\ diff.n < 0)
                     /\ row.arrow \in {"up", "down", "right"}
                     /\ Len(releases) = 1 =>
                           row.delta = Dash /\ row.pct = NotApplicable /\ row.arrow = "right"
            /\ Len(releases) = 1 =>
                  /\ report.sections[s].badge.scoreDiff = Placeholder
                  /\ IsInteger(report.sections[s].badge.score)

\* release-10's LCP (2600) after release-9's (2400) and release-30's (2400)
\* after release-10's: the row shows the latest difference, -200 ms, arrow down.
C19_Witness ==
    /\ Written
    /\ Len(releases) = 3
    /\ LatestMetrics(1)["LCP"] = Num(2400)
    /\ PreviousMetrics(1)["LCP"] = Num(2600)
    /\ report.sections[1].rows[3].delta = [t |-> "ms", n |-> -200]
    /\ report.sections[1].rows[3].arrow = "down"

-----------------------------------------------------------------------------
(* Properties of the entry points *)

\* C20: every entry-point script invoked with fewer than its required
\* arguments exits with a non-zero status before any side effect: the compare
\* tools read no input and write no report, and the workflow scripts, when no
\* release name is given, remove no directory and launch no subprocess.
C20_TooFewArgsNoSideEffect ==
    /\ (~argGiven /\ pc # "idle") =>
          /\ trace = << >>
          /\ child = "none"
          /\ reportChild = "none"
          /\ pc \in {"start", "exited"}
          /\ pc = "exited" => exitCode = "1"
    /\ (cpc # "idle" /\ cArgs < (IF tool = "batch" THEN 2 ELSE minArgs)) =>
          /\ loadLog = << >>
          /\ report = NoReport
          /\ cpc \in {"start", "exited"}
          /\ cpc = "exited" => cExit = "1"

-----------------------------------------------------------------------------
(* Properties of runWorkflow: termination and the published folder *)

FailedExit == pc = "exited" /\ exitCode = "1"

PastStep2 == "sitespeed.end" \in Range(trace)

-----------------------------------------------------------------------------
(* Properties of the extracted values *)

IsNullOrNumber(v) == v = JsNull \/ v.t = "num"

\* C22: every value extractMetrics returns for a metric is either null or a
\* number, for every input in which each metric is absent, a number, an
\* object with a numeric .median or an object without a .median (so that no
\* difference computed from two extracted values is NaN).
C22_ExtractedIsNullOrNumber ==
    (exDone /\ exOut # TypeError) =>
        \A m \in MetricSet : IsNullOrNumber(exOut[m])

-----------------------------------------------------------------------------
(* Properties of the published folder *)

\* C23: a failed sitespeed.io run never destroys previously published
\* results: the destination folder <site>/<release> changes only after the
\* subprocess has closed with exit code 0 and without an 'error' event, so
\* when the subprocess fails the folder and its contents are unchanged.
C23_FailedRunKeepsPublished ==
    [][destDir' # destDir => (child = "closed" /\ closeCode = "0" /\ ~errorSeen)]_vars

C23_Witness ==
    /\ SitespeedFailed
    /\ pc = "exited"
    /\ destDir = OldTree
    /\ destDir.files # {}

-----------------------------------------------------------------------------
(* Properties of executeSitespeedCommand *)

CleanClose == child = "closed" /\ closeCode = "0" /\ ~errorSeen

\* C24: the workflow proceeds past the sitespeed.io step if and only if the
\* subprocess's 'close' event reports exit code exactly 0 and no 'error' event
\* came first: a 'close' with a null code counts as failure, and when both
\* 'error' and 'close' fire the first one alone decides the outcome and the
\* second has no effect (the promise settles exactly once).
C24_ProceedsIffCleanClose ==
    /\ [](PastStep2 => CleanClose)
    /\ []((child = "closed" /\ closeCode = Null) => promise = "rejected")
    /\ []((child = "closed" /\ promise = "resolved") <=> CleanClose)
    /\ [][(pc = "sitespeed" /\ pc' # pc) => (pc' = "step3" <=> CleanClose)]_vars
    /\ [][(promise = "resolved" \/ promise = "rejected") => promise' = promise]_vars
    /\ [](\A p \in {"resolved", "rejected"} : \A outcome \in {"resolved", "rejected"} :
             settle(p, outcome) = p)

\* 'error' first, then 'close' with code 0: the workflow has failed.
C24_Witness ==
    /\ errorSeen
    /\ child = "closed"
    /\ closeCode = "0"
    /\ promise = "rejected"
    /\ FailedExit

-----------------------------------------------------------------------------
(* Properties of the cleanup running beside the report subprocess *)

\* The files of a folder that carry the name of a file a section reads.
ReportInputs(tree) ==
    { f \in tree.files : \E i \in DOMAIN sectionFiles : f.name = sectionFiles[i].name }

\* C25: cleanup never deletes a file that report generation reads: every
\* path the batch compare-results.js opens under a release folder is named
\* browsertime.summary-total.json or browsertime.pageSummary.json, which
\* removeUnnecessaryFiles keeps, so the homerun cleanup leaves the report's
\* input files and all directories as they were, whether the
\* compare-results.js subprocess is still running or not.
C25_CleanupKeepsReportInputs ==
    /\ \A i \in DOMAIN sectionFiles :
          /\ sectionFiles[i].name \in { <<"browsertime", ".summary-total", ".json">>,
                                        <<"browsertime", ".pageSummary", ".json">> }
          /\ ~reachesUnlink(sectionFiles[i].name)
    /\ CleanupReturned =>
          /\ ReportInputs(destDir) = ReportInputs(beforeCleanup)
          /\ destDir.files \subseteq beforeCleanup.files
          /\ destDir.dirs = beforeCleanup.dirs

\* The cleanup ran while compare-results.js was running: it deleted a file
\* and kept the summary beside it.
C25_Witness ==
    /\ script = "homerun"
    /\ CleanupReturned
    /\ reportAtCleanup = "running"
    /\ \E f \in ReportInputs(destDir) : Len(f.dir) >= 1
    /\ destDir.files # beforeCleanup.files

-----------------------------------------------------------------------------
(* Properties of the release order *)

\* C26: the release order compareReleases uses to pick each release's
\* predecessor (Object.keys of metricsByRelease) is the sorted discovered
\* release sequence generateHtml uses for the columns and for the latest and
\* the previous release, for every set of discovered release names; so the
\* delta shown for the last column is computed against the second-to-last.
C26_KeyOrderIsColumnOrder ==
    tool = "batch" =>
        /\ Len(metricsByRelease) <= Len(releases)
        /\ keys(metricsByRelease) = SubSeq(releases, 1, Len(metricsByRelease))
        /\ \A s \in DOMAIN allResults :
              /\ keys(allResults[s].metricsByRelease) = releases
              /\ keys(allResults[s].results) = releases
        /\ (report # NoReport /\ Len(releases) >= 2) =>
              /\ report.releases = releases
              /\ \A s \in DOMAIN report.sections : \A i \in DOMAIN MetricKeys :
                    LET row == report.sections[s].rows[i]
                        last == row.cells[Len(releases)]
                        before == row.cells[Len(releases) - 1]
                    IN (last.t = "ms" /\ before.t = "ms") =>
                          row.delta = [t |-> "ms", n |-> last.n - before.n]

\* Columns release-9, release-10, release-30: the LCP delta of the second
\* section is the last column minus the one before it.
C26_Witness ==
    /\ tool = "batch"
    /\ report # NoReport
    /\ keys(allResults[2].metricsByRelease)
          = << <<"release", "-", "9">>, <<"release", "-", "1", "0">>,
               <<"release", "-", "3", "0">> >>
    /\ report.sections[2].rows[3].cells[2] = [t |-> "ms", n |-> 2400]
    /\ report.sections[2].rows[3].cells[3] = [t |-> "ms", n |-> 2600]
    /\ report.sections[2].rows[3].delta = [t |-> "ms", n |-> 200]

====
